---- MODULE Spec2Model ----
(***************************************************************************)
(* Model of the APSCA mutation layer (scripts/mutate.py, scripts/lib).     *)
(* The record store is six family files; every mutation operation loads    *)
(* whole files, checks its payload, changes records in memory and rewrites *)
(* one file.  Each operation is a function from (files, payload, now) to   *)
(* the new files and the result object that main() prints.                 *)
(***************************************************************************)
EXTENDS Integers, Sequences, FiniteSets, TLC

VARIABLES files, clock, last, proc, inflight

vars == <<files, clock, last, proc, inflight>>

(* ------------------------------ bounds -------------------------------- *)
MaxReleases == 1
MaxArtifacts == 1
MaxRequirements == 2
MaxFeatures == 1
MaxEpics == 1
MaxStories == 1
MaxVersions == 2
MaxClock == 1

(* ------------------------- config.py, ID_PREFIXES --------------------- *)
DATA_FILES == {"releases", "requirements", "features", "epics", "stories", "artifacts"}

ID_PREFIXES ==
  [releases |-> "REL", artifacts |-> "ART", requirements |-> "REQ",
   features |-> "FEAT", epics |-> "EPIC", stories |-> "STORY"]

(* An id is its prefix, its digit groups (separated by "-" in the text)   *)
(* and an optional letter suffix: REQ-001 is [p "REQ", g <<0,0,1>>],       *)
(* REL-2025-01-01-a has three groups and suffix "a".                       *)
Id(p, g, s) == [p |-> p, g |-> g, s |-> s]

NoId == Id("", <<>>, "")

Num(family, digits) == Id(ID_PREFIXES[family], <<digits>>, "")

LowerCase == {"a", "b"}

RECURSIVE DigitsToInt(_)
DigitsToInt(d) ==
  IF d = <<>> THEN 0 ELSE 10 * DigitsToInt(SubSeq(d, 1, Len(d) - 1)) + d[Len(d)]

RECURSIVE IntToDigits(_)
IntToDigits(n) ==
  IF n < 10 THEN <<n>> ELSE Append(IntToDigits(n \div 10), n % 10)

RECURSIVE ZeroPad(_, _)
ZeroPad(d, width) == IF Len(d) >= width THEN d ELSE ZeroPad(<<0>> \o d, width)

now_iso == clock

(* records whose id matches ^PREFIX-(\d+)$ *)
MatchesNumeric(id, prefix) ==
  id.p = prefix /\ Len(id.g) = 1 /\ Len(id.g[1]) >= 1 /\ id.s = ""

RECURSIVE MaxNum(_, _, _)
MaxNum(data, prefix, i) ==
  IF i > Len(data) THEN 0
  ELSE LET rest == MaxNum(data, prefix, i + 1)
           n == IF MatchesNumeric(data[i].id, prefix)
                THEN DigitsToInt(data[i].id.g[1]) ELSE 0
       IN IF n > rest THEN n ELSE rest

generate_id(family, data) ==
  Id(ID_PREFIXES[family],
     <<ZeroPad(IntToDigits(MaxNum(data, ID_PREFIXES[family], 1) + 1), 3)>>, "")

validate_id_format(record_id, family) ==
  IF family = "releases"
  THEN /\ record_id.p = "REL"
       /\ Len(record_id.g) = 3
       /\ Len(record_id.g[1]) = 4
       /\ Len(record_id.g[2]) = 2
       /\ Len(record_id.g[3]) = 2
       /\ record_id.s \in {""} \cup LowerCase
  ELSE /\ record_id.p = ID_PREFIXES[family]
       /\ Len(record_id.g) = 1
       /\ Len(record_id.g[1]) >= 3
       /\ record_id.s = ""

(* variant: no id is ever reported as taken *)
id_exists_Never(record_id, data) == FALSE

id_exists(record_id, data) == \E i \in 1..Len(data) : data[i].id = record_id

(* index of the first record with this id, 0 when there is none *)
find_record_by_id(record_id, data) ==
  LET found == {i \in 1..Len(data) : data[i].id = record_id}
  IN IF found = {} THEN 0 ELSE CHOOSE i \in found : \A j \in found : i <= j

(* TRUE when validate_refs returns None (every ref found) *)
validate_refs(refs, target_data) ==
  \A k \in 1..Len(refs) : find_record_by_id(refs[k], target_data) # 0

(* variant: only the existence of the release is checked *)
validate_release_ref_ExistsOnly(release_ref, releases) ==
  IF find_record_by_id(release_ref, releases) = 0 THEN "Release not found" ELSE ""

(* "" when the release is open, else the error message *)
validate_release_ref(release_ref, releases) ==
  LET i == find_record_by_id(release_ref, releases)
  IN IF i = 0 THEN "Release not found"
     ELSE IF releases[i].status \in {"released", "superseded"}
          THEN "Cannot add versions to closed release"
          ELSE ""

success_response(message) == [status |-> "success", message |-> message]

error_response(message) == [status |-> "error", message |-> message]

(* ------------------------------ lib/io.py ----------------------------- *)
(* A family file is readable JSON holding its records, or it is not.      *)
File(recs) == [ok |-> TRUE, recs |-> recs]

Unreadable == [ok |-> FALSE, recs |-> <<>>]

(* load_json raises on a file that does not parse *)
Loads(F, families) == \A f \in families : F[f].ok

(* save_json opens the file for writing (truncating it) and streams the   *)
(* JSON text through a UTF-8 encoder; text that UTF-8 cannot encode       *)
(* raises after the file has been truncated and partly rewritten.         *)
save_json(F, family, data, utf8) ==
  [F EXCEPT ![family] = IF utf8 THEN File(data) ELSE Unreadable]

(* what an operation hands back to main(): the files and the result *)
Outcome(F, res) == [files |-> F, res |-> res]

Fail(F, message) == Outcome(F, error_response(message))

(* main(): an exception raised by the operation becomes an error result *)
Raised(F) == Fail(F, "Operation failed")

(* save, then return the success result (or the exception save raised) *)
Saved(F, family, data, utf8, message) ==
  IF utf8 THEN Outcome(save_json(F, family, data, utf8), success_response(message))
  ELSE Raised(save_json(F, family, data, utf8))

(* --------------------------- payload values --------------------------- *)
(* digit strings a caller may give as the numeric part of an id *)
PayloadDigits == {<<0, 0, 1>>, <<0, 0, 0, 2>>, <<7>>}

(* A profile says which parts of a payload a specification varies:        *)
(*   faults   required fields may be missing, enum/type values may be bad  *)
(*   ids      the caller may supply the new record's id (else generated)   *)
(*   refs     optional reference lists may be given                        *)
(*   dangling ids and references may name no record                        *)
(*   enc      the payload's text may hold a lone surrogate (\ud800), which *)
(*            json.loads accepts and UTF-8 cannot encode                   *)
(*   content  acceptance_criteria / test_intent may be given or left out   *)
(*   versions a status or approval change may number the version it means *)
Profile(faults, ids, refs, dangling, enc, content, versions) ==
  [faults |-> faults, ids |-> ids, refs |-> refs, dangling |-> dangling,
   enc |-> enc, content |-> content, versions |-> versions]

(* a flag of the payload that is TRUE in a well-formed call *)
Flag(varied) == IF varied THEN BOOLEAN ELSE {TRUE}

PayloadIds(family, pr) ==
  IF pr.ids THEN {NoId} \cup {Num(family, d) : d \in PayloadDigits} ELSE {NoId}

RelDate == <<<<2, 0, 2, 5>>, <<0, 1>>, <<0, 1>>>>

PayloadReleaseIds(pr) ==
  IF pr.ids
  THEN {Id("REL", RelDate, ""), Id("REL", RelDate, "a"),
        Id("REL", <<<<2, 0, 2, 5>>, <<1>>, <<0, 1>>>>, "")}
  ELSE {Id("REL", RelDate, "")}

StoredIds(F, family) == {F[family].recs[i].id : i \in 1..Len(F[family].recs)}

(* an id of the family's form that no record has *)
DanglingId(family) == Num(family, <<9, 9, 9>>)

(* the ids a payload may name as the record to act on or refer to *)
TargetIds(F, family, pr) ==
  StoredIds(F, family) \cup (IF pr.dangling THEN {DanglingId(family)} ELSE {})

(* JSON values whose Python type the code tests *)
JStr(v) == [kind |-> "str", v |-> <<v>>]

JList(v) == [kind |-> "list", v |-> v]

Absent == [kind |-> "absent", v |-> <<>>]

(* ============================ releases ================================ *)
CreateReleasePayloads(F, pr) ==
  [required : Flag(pr.faults), id : PayloadReleaseIds(pr), utf8 : Flag(pr.enc)]

create_release(F, payload, now) ==
  IF ~Loads(F, {"releases"}) THEN Raised(F)
  ELSE LET releases == F.releases.recs
           release_id == payload.id
           record == [id |-> release_id, status |-> "planned", updated_at |-> now]
       IN IF ~payload.required THEN Fail(F, "Missing required field")
          ELSE IF ~validate_id_format(release_id, "releases")
               THEN Fail(F, "Invalid release ID format")
          ELSE IF id_exists(release_id, releases) THEN Fail(F, "Release already exists")
          ELSE Saved(F, "releases", Append(releases, record), payload.utf8,
                     "Release created successfully")

ReleaseRefs(F, pr) ==
  StoredIds(F, "releases") \cup (IF pr.dangling THEN {Id("REL", RelDate, "b")} ELSE {})

SetReleaseStatusPayloads(F, pr) ==
  [required : Flag(pr.faults), id : ReleaseRefs(F, pr),
   status : {"released"} \cup (IF pr.faults THEN {"planned"} ELSE {})]

set_release_status(F, payload, now) ==
  IF ~Loads(F, {"releases"}) THEN Raised(F)
  ELSE LET releases == F.releases.recs
           release_id == payload.id
           new_status == payload.status
           i == find_record_by_id(release_id, releases)
       IN IF ~payload.required THEN Fail(F, "Missing required fields: id, status")
          ELSE IF new_status # "released" THEN Fail(F, "Invalid target status")
          ELSE IF i = 0 THEN Fail(F, "Release not found")
          ELSE IF releases[i].status # "planned"
               THEN Fail(F, "Only 'planned' releases can be transitioned")
          ELSE Saved(F, "releases",
                     [releases EXCEPT ![i].status = new_status, ![i].updated_at = now],
                     TRUE, "Release status set")

(* ============================ artifacts =============================== *)
valid_types == {"policy", "catalog", "classification", "rule"}

(* the JSON number 1: truthy, neither a string, a list nor a bool *)
JOne == [kind |-> "number", v |-> <<"1">>]

TypeValues(pr) ==
  (IF pr.content THEN {JStr("policy"), JList(<<"rule">>)} ELSE {JList(<<"policy">>)})
    \cup (IF pr.faults THEN {JStr("bogus"), JOne} ELSE {})

(* doc_path as a payload gives it: a path under the repository root, or   *)
(* (a value the code accepts) the empty string                            *)
DocPaths(pr) == {"docs/a.md"} \cup (IF pr.content THEN {""} ELSE {})

AddDomainEntryPayloads(F, pr) ==
  [required : Flag(pr.faults), id : PayloadIds("artifacts", pr), type : TypeValues(pr),
   status : {Absent} \cup (IF pr.content THEN {JStr("active")} ELSE {}),
   doc_path : DocPaths(pr), utf8 : Flag(pr.enc)]

add_domain_entry(F, payload, now) ==
  IF ~Loads(F, {"artifacts"}) THEN Raised(F)
  ELSE LET artifacts == F.artifacts.recs
           entry_type == IF payload.type.kind = "str"
                         THEN JList(payload.type.v) ELSE payload.type
           dom_id == IF payload.id # NoId THEN payload.id
                     ELSE generate_id("artifacts", artifacts)
           record == [id |-> dom_id,
                      status |-> IF payload.status = Absent THEN "draft"
                                 ELSE payload.status.v[1],
                      type |-> entry_type,
                      doc_path |-> payload.doc_path,
                      updated_at |-> now]
       IN IF ~payload.required THEN Fail(F, "Missing required field")
          ELSE IF entry_type.kind # "list" THEN Fail(F, "Invalid type: must be an array or string")
          ELSE IF \E k \in 1..Len(entry_type.v) : entry_type.v[k] \notin valid_types
               THEN Fail(F, "Invalid type")
          ELSE IF ~validate_id_format(dom_id, "artifacts")
               THEN Fail(F, "Invalid artifact ID format")
          ELSE IF id_exists(dom_id, artifacts) THEN Fail(F, "Business artifact already exists")
          ELSE Saved(F, "artifacts", Append(artifacts, record), payload.utf8,
                     "Business artifact created successfully")

UpdateDomainEntryPayloads(F, pr) ==
  [required : Flag(pr.faults), id : TargetIds(F, "artifacts", pr),
   type : {Absent} \cup (IF pr.content THEN TypeValues(pr) ELSE {}),
   doc_path : {Absent} \cup (IF pr.content THEN {JStr("")} ELSE {}),
   utf8 : Flag(pr.enc)]

update_domain_entry(F, payload, now) ==
  IF ~Loads(F, {"artifacts"}) THEN Raised(F)
  ELSE LET artifacts == F.artifacts.recs
           dom_id == payload.id
           i == find_record_by_id(dom_id, artifacts)
       IN IF ~payload.required THEN Fail(F, "Missing required field: id")
          ELSE IF i = 0 THEN Fail(F, "Business artifact not found")
          ELSE IF artifacts[i].status = "deprecated"
               THEN Fail(F, "Cannot update deprecated business artifact")
          ELSE Saved(F, "artifacts",
                     [artifacts EXCEPT
                        ![i].type = IF payload.type # Absent THEN payload.type ELSE @,
                        ![i].doc_path = IF payload.doc_path # Absent
                                        THEN payload.doc_path.v[1] ELSE @,
                        ![i].updated_at = now],
                     payload.utf8, "Business artifact updated successfully")

IdPayloads(F, family, pr) == [required : Flag(pr.faults), id : TargetIds(F, family, pr)]

deprecate_domain_entry(F, payload, now) ==
  IF ~Loads(F, {"artifacts"}) THEN Raised(F)
  ELSE LET artifacts == F.artifacts.recs
           dom_id == payload.id
           i == find_record_by_id(dom_id, artifacts)
       IN IF ~payload.required THEN Fail(F, "Missing required field: id")
          ELSE IF i = 0 THEN Fail(F, "Domain entry not found")
          ELSE Saved(F, "artifacts",
                     [artifacts EXCEPT ![i].status = "deprecated", ![i].updated_at = now],
                     TRUE, "Domain entry deprecated")

activate_domain_entry(F, payload, now) ==
  IF ~Loads(F, {"artifacts"}) THEN Raised(F)
  ELSE LET artifacts == F.artifacts.recs
           dom_id == payload.id
           i == find_record_by_id(dom_id, artifacts)
       IN IF ~payload.required THEN Fail(F, "Missing required field: id")
          ELSE IF i = 0 THEN Fail(F, "Business artifact not found")
          ELSE IF artifacts[i].status # "draft"
               THEN Fail(F, "Business artifact is not in draft status")
          ELSE Saved(F, "artifacts",
                     [artifacts EXCEPT ![i].status = "active", ![i].updated_at = now],
                     TRUE, "Business artifact activated")

(* optional list-valued payload field: Absent or JList(ids) *)
OptRefLists(F, family, pr) ==
  IF pr.refs
  THEN {Absent, JList(<<>>)} \cup {JList(<<r>>) : r \in TargetIds(F, family, pr)}
  ELSE {Absent}

(* payload.get(field, []) *)
GetList(value) == IF value = Absent THEN <<>> ELSE value.v

(* =========================== requirements ============================= *)
AddRequirementPayloads(F, pr) ==
  [required : Flag(pr.faults),
   type : {"functional"} \cup (IF pr.faults THEN {"bogus"} ELSE {}),
   id : PayloadIds("requirements", pr),
   artifact_refs : OptRefLists(F, "artifacts", pr), utf8 : Flag(pr.enc)]

add_requirement(F, payload, now) ==
  IF ~Loads(F, {"requirements", "artifacts"}) THEN Raised(F)
  ELSE LET requirements == F.requirements.recs
           artifacts == F.artifacts.recs
           req_id == IF payload.id # NoId THEN payload.id
                     ELSE generate_id("requirements", requirements)
           artifact_refs == GetList(payload.artifact_refs)
           record == [id |-> req_id, status |-> "active", type |-> payload.type,
                      artifact_refs |-> artifact_refs, superseded_by |-> NoId,
                      updated_at |-> now]
       IN IF ~payload.required THEN Fail(F, "Missing required field")
          ELSE IF payload.type \notin {"functional", "non-functional"}
               THEN Fail(F, "Invalid type")
          ELSE IF ~validate_id_format(req_id, "requirements")
               THEN Fail(F, "Invalid requirement ID format")
          ELSE IF id_exists(req_id, requirements) THEN Fail(F, "Requirement already exists")
          ELSE IF artifact_refs # <<>> /\ ~validate_refs(artifact_refs, artifacts)
               THEN Fail(F, "Artifact reference not found")
          ELSE Saved(F, "requirements", Append(requirements, record), payload.utf8,
                     "Requirement created successfully")

UpdateRequirementPayloads(F, pr) ==
  [required : Flag(pr.faults), id : TargetIds(F, "requirements", pr),
   artifact_refs : OptRefLists(F, "artifacts", pr), utf8 : Flag(pr.enc)]

update_requirement(F, payload, now) ==
  IF ~Loads(F, {"requirements", "artifacts"}) THEN Raised(F)
  ELSE LET requirements == F.requirements.recs
           artifacts == F.artifacts.recs
           req_id == payload.id
           i == find_record_by_id(req_id, requirements)
       IN IF ~payload.required THEN Fail(F, "Missing required field: id")
          ELSE IF i = 0 THEN Fail(F, "Requirement not found")
          ELSE IF requirements[i].status = "deprecated"
               THEN Fail(F, "Cannot update deprecated requirement")
          ELSE IF payload.artifact_refs # Absent
                  /\ ~validate_refs(payload.artifact_refs.v, artifacts)
               THEN Fail(F, "Artifact reference not found")
          ELSE Saved(F, "requirements",
                     [requirements EXCEPT
                        ![i].artifact_refs = IF payload.artifact_refs # Absent
                                             THEN payload.artifact_refs.v ELSE @,
                        ![i].updated_at = now],
                     payload.utf8, "Requirement updated successfully")

deprecate_requirement(F, payload, now) ==
  IF ~Loads(F, {"requirements"}) THEN Raised(F)
  ELSE LET requirements == F.requirements.recs
           req_id == payload.id
           i == find_record_by_id(req_id, requirements)
       IN IF ~payload.required THEN Fail(F, "Missing required field: id")
          ELSE IF i = 0 THEN Fail(F, "Requirement not found")
          ELSE Saved(F, "requirements",
                     [requirements EXCEPT ![i].status = "deprecated", ![i].updated_at = now],
                     TRUE, "Requirement deprecated")

(* variant: a deprecated requirement may be superseded again *)
AlreadyDeprecated_Never(old_record) == FALSE

(* old_record["status"] == "deprecated" *)
AlreadyDeprecated(old_record) == old_record.status = "deprecated"

SupersedeRequirementPayloads(F, pr) ==
  [required : Flag(pr.faults), old_id : TargetIds(F, "requirements", pr),
   new_required : Flag(pr.faults), new_id : PayloadIds("requirements", pr),
   type : {"functional"} \cup (IF pr.faults THEN {"bogus"} ELSE {}),
   artifact_refs : OptRefLists(F, "artifacts", pr), utf8 : Flag(pr.enc)]

supersede_requirement(F, payload, now) ==
  IF ~Loads(F, {"requirements", "artifacts"}) THEN Raised(F)
  ELSE LET requirements == F.requirements.recs
           artifacts == F.artifacts.recs
           old_id == payload.old_id
           old == find_record_by_id(old_id, requirements)
           new_id == IF payload.new_id # NoId THEN payload.new_id
                     ELSE generate_id("requirements", requirements)
           artifact_refs == GetList(payload.artifact_refs)
           timestamp == now
           new_record == [id |-> new_id, status |-> "active", type |-> payload.type,
                          artifact_refs |-> artifact_refs, superseded_by |-> NoId,
                          updated_at |-> timestamp]
       IN IF ~payload.required THEN Fail(F, "Missing required fields: old_id, new_requirement")
          ELSE IF old = 0 THEN Fail(F, "Requirement not found")
          ELSE IF AlreadyDeprecated(requirements[old])
               THEN Fail(F, "Requirement is already deprecated")
          ELSE IF ~payload.new_required THEN Fail(F, "New requirement missing required field")
          ELSE IF ~validate_id_format(new_id, "requirements")
               THEN Fail(F, "Invalid requirement ID format")
          ELSE IF id_exists(new_id, requirements) THEN Fail(F, "Requirement already exists")
          ELSE IF artifact_refs # <<>> /\ ~validate_refs(artifact_refs, artifacts)
               THEN Fail(F, "Artifact reference not found")
          ELSE Saved(F, "requirements",
                     [Append(requirements, new_record) EXCEPT
                        ![old].status = "deprecated",
                        ![old].superseded_by = new_id,
                        ![old].updated_at = timestamp],
                     payload.utf8, "Requirement superseded")

(* ============================= features =============================== *)
AddFeaturePayloads(F, pr) ==
  [required : Flag(pr.faults), id : PayloadIds("features", pr),
   requirement_refs : OptRefLists(F, "requirements", pr),
   artifact_refs : OptRefLists(F, "artifacts", pr), utf8 : Flag(pr.enc)]

add_feature(F, payload, now) ==
  IF ~Loads(F, {"features", "requirements", "artifacts"}) THEN Raised(F)
  ELSE LET features == F.features.recs
           requirements == F.requirements.recs
           artifacts == F.artifacts.recs
           feat_id == IF payload.id # NoId THEN payload.id
                      ELSE generate_id("features", features)
           requirement_refs == GetList(payload.requirement_refs)
           artifact_refs == GetList(payload.artifact_refs)
           record == [id |-> feat_id, status |-> "active",
                      requirement_refs |-> requirement_refs,
                      artifact_refs |-> artifact_refs, updated_at |-> now]
       IN IF ~payload.required THEN Fail(F, "Missing required field")
          ELSE IF ~validate_id_format(feat_id, "features")
               THEN Fail(F, "Invalid feature ID format")
          ELSE IF id_exists(feat_id, features) THEN Fail(F, "Feature already exists")
          ELSE IF requirement_refs # <<>> /\ ~validate_refs(requirement_refs, requirements)
               THEN Fail(F, "Requirement reference not found")
          ELSE IF artifact_refs # <<>> /\ ~validate_refs(artifact_refs, artifacts)
               THEN Fail(F, "Artifact reference not found")
          ELSE Saved(F, "features", Append(features, record), payload.utf8,
                     "Feature created successfully")

UpdateFeaturePayloads(F, pr) ==
  [required : Flag(pr.faults), id : TargetIds(F, "features", pr),
   requirement_refs : OptRefLists(F, "requirements", pr),
   artifact_refs : OptRefLists(F, "artifacts", pr), utf8 : Flag(pr.enc)]

update_feature(F, payload, now) ==
  IF ~Loads(F, {"features", "requirements", "artifacts"}) THEN Raised(F)
  ELSE LET features == F.features.recs
           requirements == F.requirements.recs
           artifacts == F.artifacts.recs
           feat_id == payload.id
           i == find_record_by_id(feat_id, features)
       IN IF ~payload.required THEN Fail(F, "Missing required field: id")
          ELSE IF i = 0 THEN Fail(F, "Feature not found")
          ELSE IF features[i].status = "deprecated"
               THEN Fail(F, "Cannot update deprecated feature")
          ELSE IF payload.requirement_refs # Absent
                  /\ ~validate_refs(payload.requirement_refs.v, requirements)
               THEN Fail(F, "Requirement reference not found")
          ELSE IF payload.artifact_refs # Absent
                  /\ ~validate_refs(payload.artifact_refs.v, artifacts)
               THEN Fail(F, "Artifact reference not found")
          ELSE Saved(F, "features",
                     [features EXCEPT
                        ![i].requirement_refs = IF payload.requirement_refs # Absent
                                                THEN payload.requirement_refs.v ELSE @,
                        ![i].artifact_refs = IF payload.artifact_refs # Absent
                                             THEN payload.artifact_refs.v ELSE @,
                        ![i].updated_at = now],
                     payload.utf8, "Feature updated successfully")

deprecate_feature(F, payload, now) ==
  IF ~Loads(F, {"features"}) THEN Raised(F)
  ELSE LET features == F.features.recs
           feat_id == payload.id
           i == find_record_by_id(feat_id, features)
       IN IF ~payload.required THEN Fail(F, "Missing required field: id")
          ELSE IF i = 0 THEN Fail(F, "Feature not found")
          ELSE Saved(F, "features",
                     [features EXCEPT ![i].status = "deprecated", ![i].updated_at = now],
                     TRUE, "Feature deprecated")

(* ==================== versions[] of epics and stories ================== *)
(* indexes of the versions with status backlog, in array order *)
backlog_versions(versions) == {k \in 1..Len(versions) : versions[k].status = "backlog"}

(* backlog_versions[0] *)
FirstBacklog(versions) ==
  CHOOSE k \in backlog_versions(versions) : \A j \in backlog_versions(versions) : k <= j

(* max(v["version"] for v in versions) *)
MaxVersionNum(versions) ==
  CHOOSE n \in {versions[k].version : k \in 1..Len(versions)} :
    \A k \in 1..Len(versions) : versions[k].version <= n

(* next((v for v in versions if v["version"] == version_num), None); 0 for None *)
FindVersion(versions, version_num) ==
  IF \E k \in 1..Len(versions) : versions[k].version = version_num
  THEN CHOOSE k \in 1..Len(versions) :
         /\ versions[k].version = version_num
         /\ \A j \in 1..(k - 1) : versions[j].version # version_num
  ELSE 0

(* the version a status or approval change is aimed at: the one the payload *)
(* numbers, else the first backlog version, else (when fallback) the        *)
(* highest-numbered one; 0 when there is none                               *)
TargetVersion(versions, version_num, fallback) ==
  IF version_num # 0 THEN FindVersion(versions, version_num)
  ELSE IF backlog_versions(versions) # {} THEN FirstBacklog(versions)
  ELSE IF fallback THEN FindVersion(versions, MaxVersionNum(versions))
  ELSE 0

(* variant: the first entry of the array is taken *)
get_current_version_First(versions) == 1

(* lib/versions.py: the index of the backlog version with the highest     *)
(* number (the first such in array order), or of the version with the     *)
(* highest number when none is in backlog; 0 for an empty array           *)
get_current_version(versions) ==
  LET among == IF backlog_versions(versions) # {} THEN backlog_versions(versions)
               ELSE 1..Len(versions)
      top == {k \in among : \A j \in among : versions[j].version <= versions[k].version}
  IN IF versions = <<>> THEN 0 ELSE CHOOSE k \in top : \A j \in top : k <= j

(* variant: the increment is forgotten *)
NextVersionNum_NoIncrement(versions) == MaxVersionNum(versions)

(* new_version_num = max(v["version"] for v in versions) + 1 *)
NextVersionNum(versions) == MaxVersionNum(versions) + 1

(* variant: the outgoing version is stamped and left in backlog *)
RetireOutgoing_KeepsBacklog(versions, cur, timestamp) ==
  [versions EXCEPT ![cur].updated_at = timestamp]

(* variant: the outgoing version is discarded whatever its approved flag *)
RetireOutgoing_AlwaysDiscards(versions, cur, timestamp) ==
  [versions EXCEPT ![cur].status = "discarded", ![cur].updated_at = timestamp]

(* variant: the outgoing version is released whatever its approved flag *)
RetireOutgoing_AlwaysReleases(versions, cur, timestamp) ==
  [versions EXCEPT ![cur].status = "released", ![cur].updated_at = timestamp]

(* the outgoing backlog version takes its terminal status from approved *)
RetireOutgoing(versions, cur, timestamp) ==
  [versions EXCEPT
     ![cur].status = IF versions[cur].approved THEN "released" ELSE "discarded",
     ![cur].updated_at = timestamp]

JBool(b) == [kind |-> "bool", v |-> <<b>>]

(* a JSON value that is not a bool *)
NotBool == [kind |-> "number", v |-> <<TRUE>>]

(* ============================== epics ================================= *)
AddEpicPayloads(F, pr) ==
  [required : Flag(pr.faults), feature_ref : TargetIds(F, "features", pr),
   release_ref : ReleaseRefs(F, pr),
   requirement_refs : OptRefLists(F, "requirements", pr),
   artifact_refs : OptRefLists(F, "artifacts", pr),
   id : PayloadIds("epics", pr), utf8 : Flag(pr.enc)]

add_epic(F, payload, now) ==
  IF ~Loads(F, {"epics", "features", "releases", "requirements", "artifacts"}) THEN Raised(F)
  ELSE LET epics == F.epics.recs
           features == F.features.recs
           releases == F.releases.recs
           requirements == F.requirements.recs
           artifacts == F.artifacts.recs
           err == validate_release_ref(payload.release_ref, releases)
           requirement_refs == GetList(payload.requirement_refs)
           artifact_refs == GetList(payload.artifact_refs)
           epic_id == IF payload.id # NoId THEN payload.id ELSE generate_id("epics", epics)
           version == [version |-> 1, status |-> "backlog", approved |-> FALSE,
                       release_ref |-> payload.release_ref,
                       requirement_refs |-> requirement_refs,
                       artifact_refs |-> artifact_refs,
                       supersedes |-> 0, updated_at |-> now]
           record == [id |-> epic_id, status |-> "active",
                      feature_ref |-> payload.feature_ref, versions |-> <<version>>]
       IN IF ~payload.required THEN Fail(F, "Missing required field")
          ELSE IF find_record_by_id(payload.feature_ref, features) = 0
               THEN Fail(F, "Feature not found")
          ELSE IF err # "" THEN Fail(F, err)
          ELSE IF requirement_refs # <<>> /\ ~validate_refs(requirement_refs, requirements)
               THEN Fail(F, "Requirement reference not found")
          ELSE IF artifact_refs # <<>> /\ ~validate_refs(artifact_refs, artifacts)
               THEN Fail(F, "Artifact reference not found")
          ELSE IF ~validate_id_format(epic_id, "epics") THEN Fail(F, "Invalid epic ID format")
          ELSE IF id_exists(epic_id, epics) THEN Fail(F, "Epic already exists")
          ELSE Saved(F, "epics", Append(epics, record), payload.utf8,
                     "Epic created with version 1")

CreateEpicVersionPayloads(F, pr) ==
  [required : Flag(pr.faults), epic_id : TargetIds(F, "epics", pr),
   release_ref : ReleaseRefs(F, pr),
   requirement_refs : OptRefLists(F, "requirements", pr),
   artifact_refs : OptRefLists(F, "artifacts", pr), utf8 : Flag(pr.enc)]

create_epic_version(F, payload, now) ==
  IF ~Loads(F, {"epics", "releases", "requirements", "artifacts"}) THEN Raised(F)
  ELSE LET epics == F.epics.recs
           releases == F.releases.recs
           requirements == F.requirements.recs
           artifacts == F.artifacts.recs
           e == find_record_by_id(payload.epic_id, epics)
           err == validate_release_ref(payload.release_ref, releases)
           requirement_refs == GetList(payload.requirement_refs)
           artifact_refs == GetList(payload.artifact_refs)
           versions == epics[e].versions
           cur == FirstBacklog(versions)
           current_version == versions[cur]
           current_version_num == current_version.version
           timestamp == now
           new_version_num == NextVersionNum(versions)
           new_version ==
             [version |-> new_version_num, status |-> "backlog", approved |-> FALSE,
              release_ref |-> payload.release_ref,
              requirement_refs |-> IF requirement_refs # <<>> THEN requirement_refs
                                   ELSE current_version.requirement_refs,
              artifact_refs |-> IF artifact_refs # <<>> THEN artifact_refs
                                ELSE current_version.artifact_refs,
              supersedes |-> current_version_num, updated_at |-> timestamp]
           outgoing == RetireOutgoing(versions, cur, timestamp)
       IN IF ~payload.required THEN Fail(F, "Missing required fields: epic_id, release_ref, summary")
          ELSE IF e = 0 THEN Fail(F, "Epic not found")
          ELSE IF err # "" THEN Fail(F, err)
          ELSE IF requirement_refs # <<>> /\ ~validate_refs(requirement_refs, requirements)
               THEN Fail(F, "Requirement reference not found")
          ELSE IF artifact_refs # <<>> /\ ~validate_refs(artifact_refs, artifacts)
               THEN Fail(F, "Artifact reference not found")
          ELSE IF backlog_versions(versions) = {}
               THEN Fail(F, "Epic has no backlog version to supersede")
          ELSE Saved(F, "epics",
                     [epics EXCEPT ![e].versions = Append(outgoing, new_version)],
                     payload.utf8, "Epic version created")

(* variant: a released or discarded version may be modified *)
CannotModify_Never(version) == FALSE

(* version["status"] in ("released", "discarded") *)
CannotModify(version) == version.status \in {"released", "discarded"}

(* payload.get("version"): 0 when the payload names none *)
VersionNums(pr) == IF pr.versions THEN 0..(MaxVersions + 1) ELSE {0}

StatusValues(pr) ==
  {"backlog", "released", "discarded"} \cup (IF pr.faults THEN {"draft"} ELSE {})

SetEpicVersionStatusPayloads(F, pr) ==
  [required : Flag(pr.faults), epic_id : TargetIds(F, "epics", pr),
   status : StatusValues(pr), version : VersionNums(pr)]

set_epic_version_status(F, payload, now) ==
  IF ~Loads(F, {"epics"}) THEN Raised(F)
  ELSE LET epics == F.epics.recs
           new_status == payload.status
           e == find_record_by_id(payload.epic_id, epics)
           versions == epics[e].versions
           k == TargetVersion(versions, payload.version, TRUE)
           version_num == versions[k].version
           existing_backlog ==
             {j \in backlog_versions(versions) : versions[j].version # version_num}
       IN IF ~payload.required THEN Fail(F, "Missing required fields: epic_id, status")
          ELSE IF new_status \notin {"backlog", "released", "discarded"}
               THEN Fail(F, "Invalid status")
          ELSE IF e = 0 THEN Fail(F, "Epic not found")
          ELSE IF k = 0 THEN Fail(F, "Epic version not found")
          ELSE IF CannotModify(versions[k])
               THEN Fail(F, "Cannot modify released or discarded version")
          ELSE IF new_status = "backlog" /\ existing_backlog # {}
               THEN Fail(F, "Cannot set to backlog: another version is already in backlog")
          ELSE Saved(F, "epics",
                     [epics EXCEPT ![e].versions[k].status = new_status,
                                   ![e].versions[k].updated_at = now],
                     TRUE, "Epic version status set")

ApprovedValues(pr) == {JBool(TRUE), JBool(FALSE)} \cup (IF pr.faults THEN {NotBool} ELSE {})

SetEpicApprovedPayloads(F, pr) ==
  [required : Flag(pr.faults), epic_id : TargetIds(F, "epics", pr),
   approved : ApprovedValues(pr), version : VersionNums(pr)]

set_epic_approved(F, payload, now) ==
  IF ~Loads(F, {"epics"}) THEN Raised(F)
  ELSE LET epics == F.epics.recs
           approved == payload.approved
           e == find_record_by_id(payload.epic_id, epics)
           versions == epics[e].versions
           k == TargetVersion(versions, payload.version, FALSE)
       IN IF ~payload.required THEN Fail(F, "Missing required fields: epic_id, approved")
          ELSE IF approved.kind # "bool" THEN Fail(F, "'approved' must be a boolean")
          ELSE IF e = 0 THEN Fail(F, "Epic not found")
          ELSE IF payload.version # 0 /\ k = 0 THEN Fail(F, "Epic version not found")
          ELSE IF k = 0 THEN Fail(F, "Epic has no backlog version")
          ELSE IF versions[k].status # "backlog"
               THEN Fail(F, "Cannot modify approved on released or discarded version")
          ELSE Saved(F, "epics",
                     [epics EXCEPT ![e].versions[k].approved = approved.v[1],
                                   ![e].versions[k].updated_at = now],
                     TRUE, "Epic version approved set")

(* variant: the versions are left as they are *)
DiscardBacklog_Skipped(versions, timestamp) == versions

(* the loop of deprecate_epic / deprecate_story over the versions *)
DiscardBacklog(versions, timestamp) ==
  [k \in 1..Len(versions) |->
     IF versions[k].status = "backlog"
     THEN [versions[k] EXCEPT !.status = "discarded", !.updated_at = timestamp]
     ELSE versions[k]]

EpicIdPayloads(F, pr) == [required : Flag(pr.faults), epic_id : TargetIds(F, "epics", pr)]

(* variant: the stories of the epic are deprecated with it *)
deprecate_epic_Cascade(F, payload, now) ==
  LET e == find_record_by_id(payload.epic_id, F.epics.recs)
      stories == F.stories.recs
  IN IF ~Loads(F, {"epics", "stories"}) THEN Raised(F)
     ELSE IF ~payload.required \/ e = 0 THEN Fail(F, "Epic not found")
     ELSE Outcome([F EXCEPT
                     !.epics.recs[e].versions = DiscardBacklog(@, now),
                     !.epics.recs[e].status = "deprecated",
                     !.stories.recs =
                        [s \in 1..Len(stories) |->
                           IF stories[s].epic_ref = payload.epic_id
                           THEN [stories[s] EXCEPT !.status = "deprecated"]
                           ELSE stories[s]]],
                  success_response("Epic deprecated"))

deprecate_epic(F, payload, now) ==
  IF ~Loads(F, {"epics"}) THEN Raised(F)
  ELSE LET epics == F.epics.recs
           e == find_record_by_id(payload.epic_id, epics)
           timestamp == now
       IN IF ~payload.required THEN Fail(F, "Missing required field: epic_id")
          ELSE IF e = 0 THEN Fail(F, "Epic not found")
          ELSE IF epics[e].status = "deprecated" THEN Fail(F, "Epic is already deprecated")
          ELSE Saved(F, "epics",
                     [epics EXCEPT ![e].versions = DiscardBacklog(@, timestamp),
                                   ![e].status = "deprecated"],
                     TRUE, "Epic deprecated")

(* ============================= stories ================================ *)
TestIntent(failure_modes, guarantees) ==
  [failure_modes |-> failure_modes, guarantees |-> guarantees]

JDict(d) == [kind |-> "dict", v |-> <<d>>]

(* plain: the value of a payload whose content the profile does not vary *)
AcceptanceCriteriaValues(pr, plain) ==
  IF pr.content THEN {Absent, JList(<<>>), JList(<<"ac">>)} ELSE {plain}

TestIntentValues(pr, plain) ==
  IF pr.content
  THEN {Absent, JDict(TestIntent(<<>>, <<>>)), JDict(TestIntent(<<"fm">>, <<>>)),
        JDict(TestIntent(<<>>, <<"g">>))}
  ELSE {plain}

AddStoryPayloads(F, pr) ==
  [required : Flag(pr.faults), epic_ref : TargetIds(F, "epics", pr),
   release_ref : ReleaseRefs(F, pr),
   requirement_refs : OptRefLists(F, "requirements", pr),
   artifact_refs : OptRefLists(F, "artifacts", pr),
   acceptance_criteria : AcceptanceCriteriaValues(pr, JList(<<"ac">>)),
   test_intent : TestIntentValues(pr, JDict(TestIntent(<<"fm">>, <<>>))),
   id : PayloadIds("stories", pr), utf8 : Flag(pr.enc)]

add_story(F, payload, now) ==
  IF ~Loads(F, {"stories", "epics", "releases", "requirements", "artifacts"}) THEN Raised(F)
  ELSE LET stories == F.stories.recs
           epics == F.epics.recs
           releases == F.releases.recs
           requirements == F.requirements.recs
           artifacts == F.artifacts.recs
           err == validate_release_ref(payload.release_ref, releases)
           requirement_refs == GetList(payload.requirement_refs)
           artifact_refs == GetList(payload.artifact_refs)
           story_id == IF payload.id # NoId THEN payload.id
                       ELSE generate_id("stories", stories)
           test_intent == IF payload.test_intent = Absent THEN TestIntent(<<>>, <<>>)
                          ELSE payload.test_intent.v[1]
           version == [version |-> 1, status |-> "backlog", approved |-> FALSE,
                       release_ref |-> payload.release_ref,
                       requirement_refs |-> requirement_refs,
                       artifact_refs |-> artifact_refs,
                       acceptance_criteria |-> GetList(payload.acceptance_criteria),
                       test_intent |-> test_intent,
                       supersedes |-> 0, updated_at |-> now]
           record == [id |-> story_id, status |-> "active",
                      epic_ref |-> payload.epic_ref, versions |-> <<version>>]
       IN IF ~payload.required THEN Fail(F, "Missing required field")
          ELSE IF find_record_by_id(payload.epic_ref, epics) = 0
               THEN Fail(F, "Epic not found")
          ELSE IF err # "" THEN Fail(F, err)
          ELSE IF requirement_refs # <<>> /\ ~validate_refs(requirement_refs, requirements)
               THEN Fail(F, "Requirement reference not found")
          ELSE IF artifact_refs # <<>> /\ ~validate_refs(artifact_refs, artifacts)
               THEN Fail(F, "Artifact reference not found")
          ELSE IF ~validate_id_format(story_id, "stories")
               THEN Fail(F, "Invalid story ID format")
          ELSE IF id_exists(story_id, stories) THEN Fail(F, "Story already exists")
          ELSE Saved(F, "stories", Append(stories, record), payload.utf8,
                     "Story created with version 1")

CreateStoryVersionPayloads(F, pr) ==
  [required : Flag(pr.faults), story_id : TargetIds(F, "stories", pr),
   release_ref : ReleaseRefs(F, pr),
   requirement_refs : OptRefLists(F, "requirements", pr),
   artifact_refs : OptRefLists(F, "artifacts", pr),
   acceptance_criteria : AcceptanceCriteriaValues(pr, Absent),
   test_intent : TestIntentValues(pr, Absent), utf8 : Flag(pr.enc)]

create_story_version(F, payload, now) ==
  IF ~Loads(F, {"stories", "releases", "requirements", "artifacts"}) THEN Raised(F)
  ELSE LET stories == F.stories.recs
           releases == F.releases.recs
           requirements == F.requirements.recs
           artifacts == F.artifacts.recs
           s == find_record_by_id(payload.story_id, stories)
           err == validate_release_ref(payload.release_ref, releases)
           requirement_refs == GetList(payload.requirement_refs)
           artifact_refs == GetList(payload.artifact_refs)
           versions == stories[s].versions
           cur == FirstBacklog(versions)
           current_version == versions[cur]
           current_version_num == current_version.version
           timestamp == now
           new_version_num == NextVersionNum(versions)
           new_version ==
             [version |-> new_version_num, status |-> "backlog", approved |-> FALSE,
              release_ref |-> payload.release_ref,
              requirement_refs |-> IF requirement_refs # <<>> THEN requirement_refs
                                   ELSE current_version.requirement_refs,
              artifact_refs |-> IF artifact_refs # <<>> THEN artifact_refs
                                ELSE current_version.artifact_refs,
              acceptance_criteria |-> IF payload.acceptance_criteria # Absent
                                      THEN payload.acceptance_criteria.v
                                      ELSE current_version.acceptance_criteria,
              test_intent |-> IF payload.test_intent # Absent
                              THEN payload.test_intent.v[1]
                              ELSE current_version.test_intent,
              supersedes |-> current_version_num, updated_at |-> timestamp]
           outgoing == RetireOutgoing(versions, cur, timestamp)
       IN IF ~payload.required
          THEN Fail(F, "Missing required fields: story_id, release_ref, description")
          ELSE IF s = 0 THEN Fail(F, "Story not found")
          ELSE IF err # "" THEN Fail(F, err)
          ELSE IF requirement_refs # <<>> /\ ~validate_refs(requirement_refs, requirements)
               THEN Fail(F, "Requirement reference not found")
          ELSE IF artifact_refs # <<>> /\ ~validate_refs(artifact_refs, artifacts)
               THEN Fail(F, "Artifact reference not found")
          ELSE IF backlog_versions(versions) = {}
               THEN Fail(F, "Story has no backlog version to supersede")
          ELSE Saved(F, "stories",
                     [stories EXCEPT ![s].versions = Append(outgoing, new_version)],
                     payload.utf8, "Story version created")

SetStoryStatusPayloads(F, pr) ==
  [required : Flag(pr.faults), story_id : TargetIds(F, "stories", pr),
   status : StatusValues(pr), version : VersionNums(pr)]

set_story_status(F, payload, now) ==
  IF ~Loads(F, {"stories"}) THEN Raised(F)
  ELSE LET stories == F.stories.recs
           new_status == payload.status
           s == find_record_by_id(payload.story_id, stories)
           versions == stories[s].versions
           k == TargetVersion(versions, payload.version, TRUE)
           version_num == versions[k].version
           existing_backlog ==
             {j \in backlog_versions(versions) : versions[j].version # version_num}
       IN IF ~payload.required THEN Fail(F, "Missing required fields: story_id, status")
          ELSE IF new_status \notin {"backlog", "released", "discarded"}
               THEN Fail(F, "Invalid status")
          ELSE IF s = 0 THEN Fail(F, "Story not found")
          ELSE IF k = 0 THEN Fail(F, "Story version not found")
          ELSE IF CannotModify(versions[k])
               THEN Fail(F, "Cannot modify released or discarded version")
          ELSE IF new_status = "backlog" /\ existing_backlog # {}
               THEN Fail(F, "Cannot set to backlog: another version is already in backlog")
          ELSE Saved(F, "stories",
                     [stories EXCEPT ![s].versions[k].status = new_status,
                                     ![s].versions[k].updated_at = now],
                     TRUE, "Story version status set")

(* variant: any test_intent passes *)
has_test_intent_Always(ti) == TRUE

(* variant: the test is inverted *)
has_test_intent_Inverted(ti) == ti.failure_modes = <<>> /\ ti.guarantees = <<>>

(* ti.get("failure_modes") or ti.get("guarantees") *)
has_test_intent(ti) == ti.failure_modes # <<>> \/ ti.guarantees # <<>>

SetStoryApprovedPayloads(F, pr) ==
  [required : Flag(pr.faults), story_id : TargetIds(F, "stories", pr),
   approved : ApprovedValues(pr), version : VersionNums(pr)]

set_story_approved(F, payload, now) ==
  IF ~Loads(F, {"stories"}) THEN Raised(F)
  ELSE LET stories == F.stories.recs
           approved == payload.approved
           s == find_record_by_id(payload.story_id, stories)
           versions == stories[s].versions
           k == TargetVersion(versions, payload.version, FALSE)
           ac == versions[k].acceptance_criteria
           ti == versions[k].test_intent
       IN IF ~payload.required THEN Fail(F, "Missing required fields: story_id, approved")
          ELSE IF approved.kind # "bool" THEN Fail(F, "'approved' must be a boolean")
          ELSE IF s = 0 THEN Fail(F, "Story not found")
          ELSE IF payload.version # 0 /\ k = 0 THEN Fail(F, "Story version not found")
          ELSE IF k = 0 THEN Fail(F, "Story has no backlog version")
          ELSE IF versions[k].status # "backlog"
               THEN Fail(F, "Cannot modify approved on released or discarded version")
          ELSE IF approved.v[1] /\ ac = <<>>
               THEN Fail(F, "Cannot approve: missing acceptance_criteria")
          ELSE IF approved.v[1] /\ ~has_test_intent(ti)
               THEN Fail(F, "Cannot approve: test_intent must have at least one failure_mode or guarantee")
          ELSE Saved(F, "stories",
                     [stories EXCEPT ![s].versions[k].approved = approved.v[1],
                                     ![s].versions[k].updated_at = now],
                     TRUE, "Story version approved set")

StoryIdPayloads(F, pr) == [required : Flag(pr.faults), story_id : TargetIds(F, "stories", pr)]

deprecate_story(F, payload, now) ==
  IF ~Loads(F, {"stories"}) THEN Raised(F)
  ELSE LET stories == F.stories.recs
           s == find_record_by_id(payload.story_id, stories)
           timestamp == now
       IN IF ~payload.required THEN Fail(F, "Missing required field: story_id")
          ELSE IF s = 0 THEN Fail(F, "Story not found")
          ELSE IF stories[s].status = "deprecated" THEN Fail(F, "Story is already deprecated")
          ELSE Saved(F, "stories",
                     [stories EXCEPT ![s].versions = DiscardBacklog(@, timestamp),
                                     ![s].status = "deprecated"],
                     TRUE, "Story deprecated")

(* what a run of one of the two command-line tools left behind: the      *)
(* number of results it printed on its standard output, its exit code    *)
(* and, for the validator, the errors and warnings of its result         *)
Process(tool, printed, exit, errors, warnings) ==
  [tool |-> tool, printed |-> printed, exit |-> exit,
   errors |-> errors, warnings |-> warnings]

NoProcess == Process("none", 0, 0, {}, {})

(* ============================ validate.py ============================= *)
(* One entry of result.errors or result.warnings: the kind of message,    *)
(* the family and the record id it names, the reference or id it quotes   *)
(* (NoId when it quotes none), and the place of the violation in the      *)
(* store: record i, version v, element k (0 where there is none).  Two    *)
(* violations at different places are two entries of the list.            *)
Entry(kind, family, i, v, k, id, ref) ==
  [kind |-> kind, family |-> family, i |-> i, v |-> v, k |-> k, id |-> id, ref |-> ref]

(* ID_PATTERNS[family].match(record_id) *)
ID_PATTERNS(family, record_id) ==
  IF family = "releases"
  THEN /\ record_id.p = "REL"
       /\ Len(record_id.g) = 3
       /\ Len(record_id.g[1]) = 4
       /\ Len(record_id.g[2]) = 2
       /\ Len(record_id.g[3]) = 2
       /\ record_id.s \in {""} \cup LowerCase
  ELSE /\ record_id.p = ID_PREFIXES[family]
       /\ Len(record_id.g) = 1
       /\ Len(record_id.g[1]) >= 3
       /\ record_id.s = ""

build_id_set(data) == {data[i].id : i \in {j \in 1..Len(data) : data[j].id # NoId}}

validate_id_format_errors(family, data) ==
  {Entry(IF data[i].id = NoId THEN "missing_id" ELSE "id_format",
         family, i, 0, 0, data[i].id, NoId) :
     i \in {j \in 1..Len(data) :
              data[j].id = NoId \/ ~ID_PATTERNS(family, data[j].id)}}

validate_id_uniqueness_errors(family, data) ==
  {Entry("duplicate_id", family, i, 0, 0, data[i].id, NoId) :
     i \in {j \in 1..Len(data) :
              data[j].id # NoId /\ \E h \in 1..(j - 1) : data[h].id = data[j].id}}

(* refs is a list in every record of the model: one error per element     *)
(* that is not an id of the target family                                 *)
validate_refs_errors(source_family, i, v, record_id, refs, ref_field, target_ids) ==
  {Entry(ref_field, source_family, i, v, k, record_id, refs[k]) :
     k \in {h \in 1..Len(refs) : refs[h] \notin target_ids}}

validate_status_errors(family, i, record, valid_statuses) ==
  IF record.status # "" /\ record.status \notin valid_statuses
  THEN {Entry("status", family, i, 0, 0, record.id, NoId)} ELSE {}

(* The records of the model carry every field the validator requires      *)
(* (each creating operation writes them all), so validate_required_fields *)
(* has nothing to report on them.                                         *)
validate_releases(releases) ==
  validate_id_format_errors("releases", releases)
    \cup validate_id_uniqueness_errors("releases", releases)
    \cup UNION {validate_status_errors("releases", i, releases[i], {"planned", "released"}) :
                  i \in 1..Len(releases)}

validate_artifacts(artifacts) ==
  validate_id_format_errors("artifacts", artifacts)
    \cup validate_id_uniqueness_errors("artifacts", artifacts)
    \cup UNION {validate_status_errors("artifacts", i, artifacts[i],
                                       {"draft", "active", "deprecated"}) :
                  i \in 1..Len(artifacts)}
    \cup UNION {LET entry == artifacts[i]
                IN IF entry.type.kind # "list"
                   THEN {Entry("type_not_array", "artifacts", i, 0, 0, entry.id, NoId)}
                   ELSE {Entry("type_value", "artifacts", i, 0, k, entry.id, NoId) :
                           k \in {h \in 1..Len(entry.type.v) :
                                    entry.type.v[h] \notin valid_types}} :
                  i \in 1..Len(artifacts)}

(* ROOT_DIR is not among the names validate.py imports from lib.config:   *)
(* evaluating it raises NameError, which nothing catches.  The function   *)
(* gets that far for the first artifact that is not deprecated and has a  *)
(* doc_path; it never reaches the test of the file or the warning.        *)
validate_artifact_doc_paths(artifacts) ==
  [raised |-> \E i \in 1..Len(artifacts) :
                artifacts[i].status # "deprecated" /\ artifacts[i].doc_path # "",
   warnings |-> {}]

validate_requirements(requirements, artifact_ids) ==
  LET req_ids == build_id_set(requirements)
  IN validate_id_format_errors("requirements", requirements)
       \cup validate_id_uniqueness_errors("requirements", requirements)
       \cup UNION {LET req == requirements[i]
                   IN validate_status_errors("requirements", i, req,
                                             {"active", "deprecated", "provisional"})
                        \cup validate_refs_errors("requirements", i, 0, req.id,
                                                  req.artifact_refs, "artifact_refs",
                                                  artifact_ids)
                        \cup (IF req.type # "" /\ req.type \notin {"functional", "non-functional"}
                              THEN {Entry("type_value", "requirements", i, 0, 0, req.id, NoId)}
                              ELSE {})
                        \cup (IF req.superseded_by # NoId /\ req.superseded_by \notin req_ids
                              THEN {Entry("superseded_by", "requirements", i, 0, 0, req.id,
                                          req.superseded_by)}
                              ELSE {}) :
                     i \in 1..Len(requirements)}

validate_features(features, requirement_ids, artifact_ids) ==
  validate_id_format_errors("features", features)
    \cup validate_id_uniqueness_errors("features", features)
    \cup UNION {LET feat == features[i]
                IN validate_status_errors("features", i, feat, {"active", "deprecated"})
                     \cup validate_refs_errors("features", i, 0, feat.id,
                                               feat.requirement_refs, "requirement_refs",
                                               requirement_ids)
                     \cup validate_refs_errors("features", i, 0, feat.id,
                                               feat.artifact_refs, "artifact_refs",
                                               artifact_ids) :
                  i \in 1..Len(features)}

(* the checks validate_epics and validate_stories make alike on one       *)
(* version: status, release_ref, the two reference lists and supersedes   *)
(* (0 stands for null; version_nums holds the numbers up to this one)     *)
validate_version(family, i, record_id, versions, v, release_ids, requirement_ids, artifact_ids) ==
  LET version == versions[v]
      v_num == version.version
      version_nums == {versions[h].version : h \in 1..v}
  IN (IF version.status \notin {"backlog", "released", "discarded"}
      THEN {Entry("version_status", family, i, v, 0, record_id, NoId)} ELSE {})
       \cup (IF version.release_ref \notin release_ids
             THEN {Entry("release_ref", family, i, v, 0, record_id, version.release_ref)}
             ELSE {})
       \cup validate_refs_errors(family, i, v, record_id, version.requirement_refs,
                                 "requirement_refs", requirement_ids)
       \cup validate_refs_errors(family, i, v, record_id, version.artifact_refs,
                                 "artifact_refs", artifact_ids)
       \cup (IF version.supersedes # 0 /\ version.supersedes \notin version_nums
                /\ version.supersedes >= v_num
             THEN {Entry("supersedes", family, i, v, 0, record_id, NoId)} ELSE {})

(* the checks made alike on the versions[] of one epic or story: at least *)
(* one version, at most one backlog, and the sorted numbers being 1..n    *)
(* (one error at the first number out of place)                           *)
validate_lineage(family, i, record_id, versions) ==
  (IF versions = <<>> THEN {Entry("no_versions", family, i, 0, 0, record_id, NoId)} ELSE {})
    \cup (IF Cardinality(backlog_versions(versions)) > 1
          THEN {Entry("backlog_count", family, i, 0, 0, record_id, NoId)} ELSE {})
    \cup (IF versions # <<>>
             /\ {versions[h].version : h \in 1..Len(versions)} # 1..Len(versions)
          THEN {Entry("not_monotonic", family, i, 0, 0, record_id, NoId)} ELSE {})

validate_epics(epics, feature_ids, release_ids, requirement_ids, artifact_ids) ==
  validate_id_format_errors("epics", epics)
    \cup validate_id_uniqueness_errors("epics", epics)
    \cup UNION {LET epic == epics[i]
                IN validate_status_errors("epics", i, epic, {"active", "deprecated"})
                     \cup (IF epic.feature_ref # NoId /\ epic.feature_ref \notin feature_ids
                           THEN {Entry("feature_ref", "epics", i, 0, 0, epic.id,
                                       epic.feature_ref)}
                           ELSE {})
                     \cup UNION {validate_version("epics", i, epic.id, epic.versions, v,
                                                  release_ids, requirement_ids, artifact_ids) :
                                   v \in 1..Len(epic.versions)}
                     \cup validate_lineage("epics", i, epic.id, epic.versions) :
                  i \in 1..Len(epics)}

validate_stories(stories, epic_ids, release_ids, requirement_ids, artifact_ids) ==
  validate_id_format_errors("stories", stories)
    \cup validate_id_uniqueness_errors("stories", stories)
    \cup UNION {LET story == stories[i]
                IN validate_status_errors("stories", i, story, {"active", "deprecated"})
                     \cup (IF story.epic_ref # NoId /\ story.epic_ref \notin epic_ids
                           THEN {Entry("epic_ref", "stories", i, 0, 0, story.id,
                                       story.epic_ref)}
                           ELSE {})
                     \cup UNION {validate_version("stories", i, story.id, story.versions, v,
                                                  release_ids, requirement_ids, artifact_ids)
                                   \cup (IF story.versions[v].approved
                                            /\ story.versions[v].acceptance_criteria = <<>>
                                         THEN {Entry("acceptance_criteria", "stories", i, v, 0,
                                                     story.id, NoId)}
                                         ELSE {})
                                   \cup (IF story.versions[v].approved
                                            /\ ~has_test_intent(story.versions[v].test_intent)
                                         THEN {Entry("test_intent", "stories", i, v, 0,
                                                     story.id, NoId)}
                                         ELSE {}) :
                                   v \in 1..Len(story.versions)}
                     \cup validate_lineage("stories", i, story.id, story.versions) :
                  i \in 1..Len(stories)}

(* warnings for the references of the first backlog version of an epic or *)
(* story that name a deprecated requirement or artifact                   *)
deprecated_version_refs(family, i, record, deprecated_reqs, deprecated_artifacts) ==
  IF backlog_versions(record.versions) = {} THEN {}
  ELSE LET cur == FirstBacklog(record.versions)
           current == record.versions[cur]
       IN {Entry("deprecated_requirement", family, i, cur, k, record.id,
                 current.requirement_refs[k]) :
             k \in {h \in 1..Len(current.requirement_refs) :
                      current.requirement_refs[h] \in deprecated_reqs}}
          \cup {Entry("deprecated_artifact", family, i, cur, k, record.id,
                      current.artifact_refs[k]) :
                  k \in {h \in 1..Len(current.artifact_refs) :
                           current.artifact_refs[h] \in deprecated_artifacts}}

validate_deprecated_refs(stories, epics, features, requirements, artifacts) ==
  LET deprecated_in(data) ==
        {data[i].id : i \in {j \in 1..Len(data) : data[j].status = "deprecated"}}
      deprecated_reqs == deprecated_in(requirements)
      deprecated_artifacts == deprecated_in(artifacts)
      deprecated_features == deprecated_in(features)
  IN UNION {(IF epics[i].feature_ref \in deprecated_features
             THEN {Entry("deprecated_feature", "epics", i, 0, 0, epics[i].id,
                         epics[i].feature_ref)}
             ELSE {})
              \cup deprecated_version_refs("epics", i, epics[i], deprecated_reqs,
                                           deprecated_artifacts) :
              i \in 1..Len(epics)}
       \cup UNION {deprecated_version_refs("stories", i, stories[i], deprecated_reqs,
                                           deprecated_artifacts) :
                     i \in 1..Len(stories)}

(* the ValidationResult, or the exception that ended the run *)
Validation(raised, errors, warnings) ==
  [raised |-> raised, errors |-> errors, warnings |-> warnings]

run_validation(F, include_warnings) ==
  IF ~Loads(F, DATA_FILES)
  THEN Validation(FALSE, {Entry("json_parse", "", 0, 0, 0, NoId, NoId)}, {})
  ELSE LET releases == F.releases.recs
           artifacts == F.artifacts.recs
           requirements == F.requirements.recs
           features == F.features.recs
           epics == F.epics.recs
           stories == F.stories.recs
           release_ids == build_id_set(releases)
           artifact_ids == build_id_set(artifacts)
           requirement_ids == build_id_set(requirements)
           feature_ids == build_id_set(features)
           epic_ids == build_id_set(epics)
           errors ==
             validate_releases(releases)
               \cup validate_artifacts(artifacts)
               \cup validate_requirements(requirements, artifact_ids)
               \cup validate_features(features, requirement_ids, artifact_ids)
               \cup validate_epics(epics, feature_ids, release_ids, requirement_ids,
                                   artifact_ids)
               \cup validate_stories(stories, epic_ids, release_ids, requirement_ids,
                                     artifact_ids)
       IN IF ~include_warnings THEN Validation(FALSE, errors, {})
          ELSE IF validate_artifact_doc_paths(artifacts).raised
               THEN Validation(TRUE, errors, {})
          ELSE Validation(FALSE, errors,
                          validate_deprecated_refs(stories, epics, features, requirements,
                                                   artifacts))

(* main() of validate.py: the result is printed and the exit code is 0    *)
(* when it has no errors; an exception that escapes run_validation ends   *)
(* the process with a traceback, nothing printed, and exit code 1         *)
validate_main(F, include_warnings) ==
  LET result == run_validation(F, include_warnings)
  IN IF result.raised THEN Process("validate", 0, 1, {}, {})
     ELSE Process("validate", 1, IF result.errors = {} THEN 0 ELSE 1, result.errors,
                  IF include_warnings THEN result.warnings ELSE {})

(* ========================== the state machine ========================= *)
(* Two mutate.py processes that run at the same time.  Each is idle, has *)
(* loaded the files it works on (load_json, at the top of the operation)  *)
(* and not yet saved, or is done; it keeps its payload, what it loaded,   *)
(* whether the other process had loaded and not yet saved at that moment, *)
(* its result, the record it wrote and its place in the order of saves.   *)
Writers == {"w1", "w2"}

Idle ==
  [pc |-> "idle", payload |-> <<>>, loaded |-> <<>>, raced |-> FALSE,
   res |-> <<>>, wrote |-> <<>>, order |-> 0]

Init ==
  /\ files = [f \in DATA_FILES |-> File(<<>>)]
  /\ clock = 0
  /\ last = [op |-> "none", status |-> "none", message |-> ""]
  /\ proc = NoProcess
  /\ inflight = [w \in Writers |-> Idle]

VersionsWithin(recs) == \A i \in 1..Len(recs) : Len(recs[i].versions) <= MaxVersions

Within(F) ==
  /\ Len(F.releases.recs) <= MaxReleases
  /\ Len(F.artifacts.recs) <= MaxArtifacts
  /\ Len(F.requirements.recs) <= MaxRequirements
  /\ Len(F.features.recs) <= MaxFeatures
  /\ Len(F.epics.recs) <= MaxEpics
  /\ Len(F.stories.recs) <= MaxStories
  /\ VersionsWithin(F.epics.recs)
  /\ VersionsWithin(F.stories.recs)

(* where main() of mutate.py finds the payload: --payload with a JSON    *)
(* text, with text that is not JSON, or with the empty string;            *)
(* --payload-file naming a file of JSON text, a file of other text, no    *)
(* file, or something that cannot be read as UTF-8 text (a directory, a   *)
(* file without read permission, bytes that are not UTF-8); or neither    *)
PayloadSources ==
  {"inline", "inline_malformed", "inline_empty", "file", "file_malformed",
   "file_missing", "file_unreadable", "none"}

(* output_result: the result is printed and the exit code follows it *)
output_result(F, result) ==
  [files |-> F, res |-> result,
   proc |-> Process("mutate", 1, IF result.status = "success" THEN 0 ELSE 1, {}, {})]

(* main() of mutate.py; out is what the operation does with the payload   *)
(* once main has parsed it.  Only json.JSONDecodeError is caught around   *)
(* the reading of the payload file: any other exception of read_text      *)
(* ends the process with a traceback, no result and exit code 1.          *)
mutate_main(source, F, out) ==
  CASE source \in {"inline", "file"} -> output_result(out.files, out.res)
    [] source = "inline_malformed" ->
         output_result(F, error_response("Invalid JSON payload"))
    [] source = "file_missing" ->
         output_result(F, error_response("Payload file not found"))
    [] source = "file_malformed" ->
         output_result(F, error_response("Invalid JSON in payload file"))
    [] source = "file_unreadable" ->
         [files |-> F, res |-> [status |-> "none", message |-> "Traceback"],
          proc |-> Process("mutate", 0, 1, {}, {})]
    [] source \in {"inline_empty", "none"} ->
         output_result(F, error_response("Either --payload or --payload-file is required"))

(* one invocation of the CLI *)
Invoke(op, source, out) ==
  \E o \in {mutate_main(source, files, out)} :
    /\ Within(o.files)
    /\ files' = o.files
    /\ last' = [op |-> op, status |-> o.res.status, message |-> o.res.message]
    /\ proc' = o.proc
    /\ UNCHANGED <<clock, inflight>>

(* an invocation whose payload is a JSON text on the command line *)
Do(op, out) == Invoke(op, "inline", out)

Tick == clock < MaxClock /\ clock' = clock + 1 /\ UNCHANGED <<files, last, proc, inflight>>

CreateRelease(pr) ==
  \E p \in CreateReleasePayloads(files, pr) : Do("create_release", create_release(files, p, now_iso))

SetReleaseStatus(pr) ==
  \E p \in SetReleaseStatusPayloads(files, pr) :
    Do("set_release_status", set_release_status(files, p, now_iso))

AddDomainEntry(pr) ==
  \E p \in AddDomainEntryPayloads(files, pr) : Do("add_domain_entry", add_domain_entry(files, p, now_iso))

UpdateDomainEntry(pr) ==
  \E p \in UpdateDomainEntryPayloads(files, pr) :
    Do("update_domain_entry", update_domain_entry(files, p, now_iso))

ActivateDomainEntry(pr) ==
  \E p \in IdPayloads(files, "artifacts", pr) :
    Do("activate_domain_entry", activate_domain_entry(files, p, now_iso))

DeprecateDomainEntry(pr) ==
  \E p \in IdPayloads(files, "artifacts", pr) :
    Do("deprecate_domain_entry", deprecate_domain_entry(files, p, now_iso))

AddRequirement(pr) ==
  \E p \in AddRequirementPayloads(files, pr) :
    Do("add_requirement", add_requirement(files, p, now_iso))

UpdateRequirement(pr) ==
  \E p \in UpdateRequirementPayloads(files, pr) :
    Do("update_requirement", update_requirement(files, p, now_iso))

DeprecateRequirement(pr) ==
  \E p \in IdPayloads(files, "requirements", pr) :
    Do("deprecate_requirement", deprecate_requirement(files, p, now_iso))

SupersedeRequirement(pr) ==
  \E p \in SupersedeRequirementPayloads(files, pr) :
    Do("supersede_requirement", supersede_requirement(files, p, now_iso))

AddFeature(pr) ==
  \E p \in AddFeaturePayloads(files, pr) : Do("add_feature", add_feature(files, p, now_iso))

UpdateFeature(pr) ==
  \E p \in UpdateFeaturePayloads(files, pr) :
    Do("update_feature", update_feature(files, p, now_iso))

DeprecateFeature(pr) ==
  \E p \in IdPayloads(files, "features", pr) :
    Do("deprecate_feature", deprecate_feature(files, p, now_iso))

AddEpic(pr) ==
  \E p \in AddEpicPayloads(files, pr) : Do("add_epic", add_epic(files, p, now_iso))

CreateEpicVersion(pr) ==
  \E p \in CreateEpicVersionPayloads(files, pr) :
    Do("create_epic_version", create_epic_version(files, p, now_iso))

SetEpicVersionStatus(pr) ==
  \E p \in SetEpicVersionStatusPayloads(files, pr) :
    Do("set_epic_version_status", set_epic_version_status(files, p, now_iso))

SetEpicApproved(pr) ==
  \E p \in SetEpicApprovedPayloads(files, pr) :
    Do("set_epic_approved", set_epic_approved(files, p, now_iso))

DeprecateEpic(pr) ==
  \E p \in EpicIdPayloads(files, pr) : Do("deprecate_epic", deprecate_epic(files, p, now_iso))

AddStory(pr) ==
  \E p \in AddStoryPayloads(files, pr) : Do("add_story", add_story(files, p, now_iso))

CreateStoryVersion(pr) ==
  \E p \in CreateStoryVersionPayloads(files, pr) :
    Do("create_story_version", create_story_version(files, p, now_iso))

SetStoryStatus(pr) ==
  \E p \in SetStoryStatusPayloads(files, pr) :
    Do("set_story_status", set_story_status(files, p, now_iso))

SetStoryApproved(pr) ==
  \E p \in SetStoryApprovedPayloads(files, pr) :
    Do("set_story_approved", set_story_approved(files, p, now_iso))

DeprecateStory(pr) ==
  \E p \in StoryIdPayloads(files, pr) : Do("deprecate_story", deprecate_story(files, p, now_iso))

(* one run of validate.py, with or without --warnings *)
Validate(include_warnings) ==
  /\ proc' = validate_main(files, include_warnings)
  /\ UNCHANGED <<files, clock, last, inflight>>

(* variant: the save adds the new records to what the file holds now *)
WriteBack_Merge(F, family, loaded, saved) ==
  [F EXCEPT ![family].recs =
     @ \o SubSeq(saved[family].recs, Len(loaded[family].recs) + 1, Len(saved[family].recs))]

(* save_json writes the whole list the process holds over the file *)
WriteBack(F, family, loaded, saved) == [F EXCEPT ![family] = saved[family]]

(* add_requirement in process w, first part: load_json of the two files *)
LoadRequirement(w, pr) ==
  /\ inflight[w].pc = "idle"
  /\ \E p \in AddRequirementPayloads(files, pr) :
       inflight' = [inflight EXCEPT ![w] =
                      [Idle EXCEPT !.pc = "loaded", !.payload = p, !.loaded = files,
                                   !.raced = \E o \in Writers \ {w} :
                                               inflight[o].pc = "loaded"]]
  /\ UNCHANGED <<files, clock, last, proc>>

(* add_requirement in process w, second part: the checks, the new record  *)
(* appended to the list that was loaded, save_json, and the result        *)
SaveRequirement(w) ==
  /\ inflight[w].pc = "loaded"
  /\ LET loaded == inflight[w].loaded
         out == add_requirement(loaded, inflight[w].payload, now_iso)
         o == mutate_main("inline", loaded, out)
         written == o.files.requirements # loaded.requirements
         recs == o.files.requirements.recs
     IN /\ files' = (IF written THEN WriteBack(files, "requirements", loaded, o.files)
                     ELSE files)
        /\ Within(files')
        /\ last' = [op |-> "add_requirement", status |-> o.res.status,
                    message |-> o.res.message]
        /\ proc' = o.proc
        /\ inflight' = [inflight EXCEPT
                          ![w].pc = "done", ![w].res = o.res,
                          ![w].wrote = IF written THEN <<recs[Len(recs)]>> ELSE <<>>,
                          ![w].order = 1 + Cardinality({x \in Writers :
                                                         inflight[x].pc = "done"})]
  /\ UNCHANGED clock

(* ------------------------- specifications ----------------------------- *)
(* a well-formed call that leaves every optional field out *)
Plain == Profile(FALSE, FALSE, FALSE, FALSE, FALSE, FALSE, FALSE)

(* The version lineage of epics and stories: a release, a feature, an     *)
(* epic and a story are created, and every versioning operation runs on   *)
(* them, numbering a version or not, on open and on shipped releases.     *)
Creating == Profile(FALSE, FALSE, FALSE, TRUE, TRUE, FALSE, FALSE)

Versioning == Profile(FALSE, FALSE, FALSE, FALSE, FALSE, FALSE, TRUE)

NextLineage ==
  \/ CreateRelease(Plain) \/ SetReleaseStatus(Plain) \/ AddFeature(Plain)
  \/ AddEpic(Creating) \/ AddStory(Creating)
  \/ CreateEpicVersion(Creating) \/ CreateStoryVersion(Creating)
  \/ SetEpicVersionStatus(Versioning) \/ SetStoryStatus(Versioning)
  \/ SetEpicApproved(Versioning) \/ SetStoryApproved(Versioning)
  \/ DeprecateEpic(Plain) \/ DeprecateStory(Plain)

SpecLineage == Init /\ [][NextLineage]_vars

(* The creation of records in all six families, with the id given by the  *)
(* caller (well formed or not, taken or not) or generated; the text of a  *)
(* requirement may not encode.                                            *)
Naming == Profile(FALSE, TRUE, FALSE, FALSE, FALSE, FALSE, FALSE)

NamingText == Profile(FALSE, TRUE, FALSE, FALSE, TRUE, FALSE, FALSE)

NextIds ==
  \/ CreateRelease(Naming) \/ AddDomainEntry(Naming) \/ AddRequirement(NamingText)
  \/ SupersedeRequirement(NamingText) \/ AddFeature(Naming)
  \/ AddEpic(Naming) \/ AddStory(Naming)

SpecIds == Init /\ [][NextIds]_vars

(* The approval of story versions: stories and their versions are created *)
(* with and without acceptance criteria and test intent, and approval is  *)
(* set and cleared on the backlog version or on a numbered one, while the *)
(* clock advances.                                                        *)
Writing == Profile(FALSE, FALSE, FALSE, FALSE, FALSE, TRUE, FALSE)

NextApproval ==
  \/ CreateRelease(Plain) \/ AddFeature(Plain) \/ AddEpic(Plain)
  \/ AddStory(Writing) \/ CreateStoryVersion(Writing)
  \/ SetStoryApproved(Versioning) \/ SetStoryStatus(Plain) \/ DeprecateStory(Plain)
  \/ Tick

SpecApproval == Init /\ [][NextApproval]_vars

(* The records that epics and stories rest on: artifacts, requirements    *)
(* and features are created, linked, updated, superseded and deprecated,  *)
(* with references that resolve or (for a feature) dangle, and with text  *)
(* that may not encode.                                                   *)
Linking == Profile(FALSE, FALSE, TRUE, FALSE, TRUE, FALSE, FALSE)

Relinking == Profile(FALSE, FALSE, TRUE, TRUE, FALSE, FALSE, FALSE)

NextUpstream ==
  \/ AddDomainEntry(Linking) \/ UpdateDomainEntry(Linking)
  \/ ActivateDomainEntry(Plain) \/ DeprecateDomainEntry(Plain)
  \/ AddRequirement(Linking) \/ UpdateRequirement(Linking)
  \/ DeprecateRequirement(Plain) \/ SupersedeRequirement(Linking)
  \/ AddFeature(Relinking) \/ UpdateFeature(Relinking) \/ DeprecateFeature(Plain)

SpecUpstream == Init /\ [][NextUpstream]_vars

(* The life of a release: releases are created and shipped by calls that  *)
(* may lack a field, give an id of the caller, name no release, ask for   *)
(* another status or carry text that does not encode, while the clock     *)
(* advances.                                                              *)
Faulty == Profile(TRUE, FALSE, FALSE, TRUE, FALSE, FALSE, FALSE)

FaultyNaming == Profile(TRUE, TRUE, FALSE, FALSE, TRUE, FALSE, FALSE)

NextReleases == CreateRelease(FaultyNaming) \/ SetReleaseStatus(Faulty) \/ Tick

SpecReleases == Init /\ [][NextReleases]_vars

(* The retirement of artifacts, requirements and features: records are    *)
(* created from well-formed payloads whose text encodes (an artifact's    *)
(* payload may give a status and its type as a string or a list), then    *)
(* updated, activated, superseded and deprecated, once or again, by calls *)
(* that may lack a field or name no record, while the clock advances.     *)
NextRetirement ==
  \/ AddDomainEntry(Writing) \/ UpdateDomainEntry(Faulty)
  \/ ActivateDomainEntry(Faulty) \/ DeprecateDomainEntry(Faulty)
  \/ AddRequirement(Plain) \/ UpdateRequirement(Faulty)
  \/ DeprecateRequirement(Faulty) \/ SupersedeRequirement(Plain)
  \/ AddFeature(Plain) \/ UpdateFeature(Faulty) \/ DeprecateFeature(Faulty)
  \/ Tick

SpecRetirement == Init /\ [][NextRetirement]_vars

(* The validator after mutation: artifacts, requirements and features    *)
(* are created, updated, superseded and deprecated by calls that succeed  *)
(* whenever their target exists (an artifact's payload may give a status, *)
(* an empty doc_path, and its type as a string or a list; the new         *)
(* requirement of a supersession may give any type), and the validator is *)
(* run, with and without warnings, on what they leave.                    *)
Retyping == Profile(TRUE, FALSE, FALSE, FALSE, FALSE, FALSE, FALSE)

NextValidation ==
  \/ AddDomainEntry(Writing) \/ UpdateDomainEntry(Writing)
  \/ ActivateDomainEntry(Plain) \/ DeprecateDomainEntry(Plain)
  \/ AddRequirement(Plain) \/ SupersedeRequirement(Retyping)
  \/ AddFeature(Linking) \/ DeprecateFeature(Plain)
  \/ Validate(TRUE) \/ Validate(FALSE)

SpecValidation == Init /\ [][NextValidation]_vars

(* The command line of mutate.py: releases are created and shipped by    *)
(* invocations that take their payload from each of the sources, while    *)
(* the clock advances.                                                    *)
CreateReleaseFrom(source) ==
  \E p \in CreateReleasePayloads(files, FaultyNaming) :
    Invoke("create_release", source, create_release(files, p, now_iso))

SetReleaseStatusFrom(source) ==
  \E p \in SetReleaseStatusPayloads(files, Faulty) :
    Invoke("set_release_status", source, set_release_status(files, p, now_iso))

NextCli ==
  \/ \E source \in PayloadSources : CreateReleaseFrom(source)
  \/ \E source \in PayloadSources : SetReleaseStatusFrom(source)
  \/ Tick

SpecCli == Init /\ [][NextCli]_vars

(* The validator on stores it did not write: the files hold what an      *)
(* editor or another tool may have left in them, within the shapes the    *)
(* validator reads: an artifact (active or deprecated, with or without a  *)
(* doc_path), a requirement (active or deprecated), a feature whose       *)
(* reference lists name records that exist, records that do not, or the   *)
(* same missing record twice, and an epic and a story whose versions      *)
(* supersede an earlier version, themselves, a later number or a number   *)
(* that is not in the array, in ascending or descending order.  The       *)
(* validator is run with and without warnings.                            *)
AuditStores ==
  LET art(status, doc_path) ==
        [id |-> Num("artifacts", <<0, 0, 1>>), status |-> status,
         type |-> JList(<<"policy">>), doc_path |-> doc_path, updated_at |-> 0]
      req(status) ==
        [id |-> Num("requirements", <<0, 0, 1>>), status |-> status,
         type |-> "functional", artifact_refs |-> <<>>, superseded_by |-> NoId,
         updated_at |-> 0]
      feat(requirement_refs, artifact_refs) ==
        [id |-> Num("features", <<0, 0, 1>>), status |-> "active",
         requirement_refs |-> requirement_refs, artifact_refs |-> artifact_refs,
         updated_at |-> 0]
      ver(version, supersedes) ==
        [version |-> version, status |-> "released", approved |-> FALSE,
         release_ref |-> Id("REL", RelDate, ""), requirement_refs |-> <<>>,
         artifact_refs |-> <<>>, supersedes |-> supersedes, updated_at |-> 0]
      epic(versions) ==
        [id |-> Num("epics", <<0, 0, 1>>), status |-> "active",
         feature_ref |-> Num("features", <<0, 0, 1>>), versions |-> versions]
      story(versions) ==
        [id |-> Num("stories", <<0, 0, 1>>), status |-> "active",
         epic_ref |-> Num("epics", <<0, 0, 1>>),
         versions |-> [k \in 1..Len(versions) |->
                         [acceptance_criteria |-> <<>>,
                          test_intent |-> TestIntent(<<>>, <<>>)] @@ versions[k]]]
      release == [id |-> Id("REL", RelDate, ""), status |-> "released", updated_at |-> 0]
      REQ1 == Num("requirements", <<0, 0, 1>>)
      REQ9 == DanglingId("requirements")
      ART1 == Num("artifacts", <<0, 0, 1>>)
      artifacts == {<<>>, <<art("active", "docs/a.md")>>, <<art("active", "")>>,
                    <<art("deprecated", "docs/a.md")>>}
      requirements == {<<>>, <<req("active")>>, <<req("deprecated")>>}
      features ==
        {<<>>} \cup
        {<<feat(r, a)>> :
           r \in {<<>>, <<REQ1>>, <<REQ9>>, <<REQ1, REQ9>>, <<REQ9, REQ9>>},
           a \in {<<>>, <<ART1>>}}
      lineages ==
        {<<ver(1, 0), ver(2, 1)>>, <<ver(1, 0), ver(2, 2)>>, <<ver(1, 0), ver(2, 3)>>,
         <<ver(2, 1), ver(1, 0)>>, <<ver(2, 0), ver(3, 1)>>}
      epics == {<<>>} \cup {<<epic(l)>> : l \in lineages}
      stories == {<<>>, <<story(<<ver(2, 0), ver(3, 1)>>)>>,
                  <<story(<<ver(1, 0), ver(2, 1)>>)>>}
  IN {[f \in DATA_FILES |->
         CASE f = "artifacts" -> File(a)
           [] f = "requirements" -> File(r)
           [] f = "features" -> File(ft)
           [] f = "epics" -> File(e)
           [] f = "stories" -> File(st)
           [] f = "releases" -> File(<<release>>)] :
        a \in artifacts, r \in requirements, ft \in features, e \in epics,
        st \in stories}

InitAudit ==
  /\ files \in AuditStores
  /\ clock = 0
  /\ last = [op |-> "none", status |-> "none", message |-> ""]
  /\ proc = NoProcess
  /\ inflight = [w \in Writers |-> Idle]

NextAudit == Validate(TRUE) \/ Validate(FALSE)

SpecAudit == InitAudit /\ [][NextAudit]_vars

(* What a new version inherits: a release, requirements, a feature, an   *)
(* epic and a story are created, the epic and the story with reference    *)
(* lists that are left out, empty or filled, and new versions of them are *)
(* created with the same choice.                                          *)
NextCopyForward ==
  \/ CreateRelease(Plain) \/ AddRequirement(Plain) \/ AddFeature(Plain)
  \/ AddEpic(Relinking) \/ CreateEpicVersion(Relinking)
  \/ AddStory(Relinking) \/ CreateStoryVersion(Relinking)

SpecCopyForward == Init /\ [][NextCopyForward]_vars

(* Two writers of one family: each of the two processes runs one         *)
(* add_requirement with an id of the caller or a generated one, its load  *)
(* and its save being separate steps that interleave with the other       *)
(* process's, while the clock advances.                                   *)
NextRace ==
  \/ \E w \in Writers : LoadRequirement(w, Naming)
  \/ \E w \in Writers : SaveRequirement(w)
  \/ Tick

SpecRace == Init /\ [][NextRace]_vars

(* ============================== claims ================================ *)
Versioned == {"epics", "stories"}

(* the payloads a claim about one call is tried on in every state: a      *)
(* required field may be missing, the ids may name no record and the     *)
(* text may not encode                                                   *)
Probing == Profile(TRUE, FALSE, FALSE, TRUE, TRUE, FALSE, FALSE)

Terminal == {"released", "discarded"}

(* C1: single-backlog rule: every epic and every story has at most one   *)
(* entry of versions[] with status backlog, whatever operations ran.     *)
C1_SingleBacklog ==
  \A fam \in Versioned : \A i \in 1..Len(files[fam].recs) :
    Cardinality(backlog_versions(files[fam].recs[i].versions)) <= 1

C1_Witness ==
  /\ last.op \in {"create_epic_version", "create_story_version"}
  /\ last.status = "success"
  /\ \E fam \in Versioned : \E i \in 1..Len(files[fam].recs) :
       /\ Len(files[fam].recs[i].versions) >= 2
       /\ Cardinality(backlog_versions(files[fam].recs[i].versions)) = 1

(* C2: monotonic version lineage: the version numbers of every epic and  *)
(* story are exactly 1..N, N the length of versions[], none repeated.    *)
C2_MonotonicLineage ==
  \A fam \in Versioned : \A i \in 1..Len(files[fam].recs) :
    LET versions == files[fam].recs[i].versions
    IN /\ {versions[k].version : k \in 1..Len(versions)} = 1..Len(versions)
       /\ \A j, k \in 1..Len(versions) : versions[j].version = versions[k].version => j = k

C2_Witness ==
  /\ last.op = "create_story_version"
  /\ last.status = "success"
  /\ \E i \in 1..Len(files.stories.recs) :
       /\ Len(files.stories.recs[i].versions) = MaxVersions
       /\ files.stories.recs[i].versions[MaxVersions].version = MaxVersions

(* C3: terminal immutability, as claimed: a version that is released or  *)
(* discarded is there, with every field as it was, after any operation.  *)
C3_TerminalImmutable ==
  [][\A fam \in Versioned : \A i \in 1..Len(files[fam].recs) :
       \A k \in 1..Len(files[fam].recs[i].versions) :
         files[fam].recs[i].versions[k].status \in Terminal =>
           /\ i <= Len(files'[fam].recs)
           /\ files'[fam].recs[i].id = files[fam].recs[i].id
           /\ k <= Len(files'[fam].recs[i].versions)
           /\ files'[fam].recs[i].versions[k] = files[fam].recs[i].versions[k]]_vars

(* an operation that failed and wrote nothing *)
Refused(F, out) == out.res.status = "error" /\ out.files = F

(* C4: id uniqueness: in each of the six families no two records have    *)
(* the same id, whichever create operations ran, with given or generated *)
(* ids; a create whose id is taken fails and adds no record.             *)
DistinctIds(recs) == \A i, j \in 1..Len(recs) : recs[i].id = recs[j].id => i = j

ProbingIds == Profile(TRUE, TRUE, FALSE, TRUE, TRUE, FALSE, FALSE)

(* the outcome of a create call on family fam whose payload gives id *)
Created(F, fam, id, out) ==
  /\ DistinctIds(out.files[fam].recs)
  /\ id \in StoredIds(F, fam) => Refused(F, out)

C4_IdUniqueness ==
  /\ \A fam \in DATA_FILES : DistinctIds(files[fam].recs)
  /\ \A p \in CreateReleasePayloads(files, ProbingIds) :
       Created(files, "releases", p.id, create_release(files, p, clock))
  /\ \A p \in AddDomainEntryPayloads(files, ProbingIds) :
       Created(files, "artifacts", p.id, add_domain_entry(files, p, clock))
  /\ \A p \in AddRequirementPayloads(files, ProbingIds) :
       Created(files, "requirements", p.id, add_requirement(files, p, clock))
  /\ \A p \in SupersedeRequirementPayloads(files, ProbingIds) :
       Created(files, "requirements", p.new_id, supersede_requirement(files, p, clock))
  /\ \A p \in AddFeaturePayloads(files, ProbingIds) :
       Created(files, "features", p.id, add_feature(files, p, clock))
  /\ \A p \in AddEpicPayloads(files, ProbingIds) :
       Created(files, "epics", p.id, add_epic(files, p, clock))
  /\ \A p \in AddStoryPayloads(files, ProbingIds) :
       Created(files, "stories", p.id, add_story(files, p, clock))

C4_Witness ==
  /\ last.op = "supersede_requirement"
  /\ last.message = "Requirement already exists"
  /\ Len(files.requirements.recs) = 2
  /\ files.requirements.recs[1].id # files.requirements.recs[2].id

(* C5: reference integrity, as claimed: every id in an artifact_refs or  *)
(* requirement_refs list, every feature_ref, epic_ref and release_ref    *)
(* and every superseded_by that is set names a record of its family.     *)
Resolves(F, refs, family) == \A k \in 1..Len(refs) : refs[k] \in StoredIds(F, family)

VersionRefsResolve(F, versions) ==
  \A k \in 1..Len(versions) :
    /\ versions[k].release_ref \in StoredIds(F, "releases")
    /\ Resolves(F, versions[k].requirement_refs, "requirements")
    /\ Resolves(F, versions[k].artifact_refs, "artifacts")

C5_ReferenceIntegrity ==
  /\ \A i \in 1..Len(files.requirements.recs) :
       LET r == files.requirements.recs[i]
       IN /\ Resolves(files, r.artifact_refs, "artifacts")
          /\ r.superseded_by # NoId => r.superseded_by \in StoredIds(files, "requirements")
  /\ \A i \in 1..Len(files.features.recs) :
       LET f == files.features.recs[i]
       IN /\ Resolves(files, f.requirement_refs, "requirements")
          /\ Resolves(files, f.artifact_refs, "artifacts")
  /\ \A i \in 1..Len(files.epics.recs) :
       LET e == files.epics.recs[i]
       IN e.feature_ref \in StoredIds(files, "features") /\ VersionRefsResolve(files, e.versions)
  /\ \A i \in 1..Len(files.stories.recs) :
       LET s == files.stories.recs[i]
       IN s.epic_ref \in StoredIds(files, "epics") /\ VersionRefsResolve(files, s.versions)

(* C6: release-open gate: add_epic, add_story, create_epic_version and   *)
(* create_story_version fail and write nothing when release_ref names no *)
(* release or a release whose status is not planned.                     *)
ReleaseOpen(F, release_ref) ==
  \E i \in 1..Len(F.releases.recs) :
    F.releases.recs[i].id = release_ref /\ F.releases.recs[i].status = "planned"

C6_ReleaseOpenGate ==
  /\ \A p \in AddEpicPayloads(files, Probing) :
       ~ReleaseOpen(files, p.release_ref) => Refused(files, add_epic(files, p, clock))
  /\ \A p \in AddStoryPayloads(files, Probing) :
       ~ReleaseOpen(files, p.release_ref) => Refused(files, add_story(files, p, clock))
  /\ \A p \in CreateEpicVersionPayloads(files, Probing) :
       ~ReleaseOpen(files, p.release_ref) =>
         Refused(files, create_epic_version(files, p, clock))
  /\ \A p \in CreateStoryVersionPayloads(files, Probing) :
       ~ReleaseOpen(files, p.release_ref) =>
         Refused(files, create_story_version(files, p, clock))

C6_Witness ==
  /\ last.op = "create_epic_version"
  /\ last.message = "Cannot add versions to closed release"
  /\ \E i \in 1..Len(files.releases.recs) : files.releases.recs[i].status = "released"
  /\ \E i \in 1..Len(files.epics.recs) :
       backlog_versions(files.epics.recs[i].versions) # {}

(* C7: no write on failure, as claimed: an operation whose result has    *)
(* status error leaves every family file as it was before the call.      *)
C7_NoWriteOnFailure == [][last'.status = "error" => files' = files]_vars

(* C8: approval gate: set_story_approved with approved = true on a       *)
(* backlog story version fails and leaves the approved flag as it was    *)
(* when acceptance_criteria is empty or both lists of test_intent are    *)
(* empty; otherwise it succeeds and the flag is true.                    *)
ProbingVersions == Profile(TRUE, FALSE, FALSE, TRUE, FALSE, FALSE, TRUE)

(* the story and the version a call of set_story_approved is aimed at, *)
(* <<0, 0>> when the payload names none that is in backlog             *)
AimedBacklog(F, p) ==
  LET stories == F.stories.recs
      S == {i \in 1..Len(stories) : stories[i].id = p.story_id}
      s == CHOOSE i \in S : TRUE
      K == {k \in 1..Len(stories[s].versions) :
              /\ stories[s].versions[k].status = "backlog"
              /\ p.version \in {0, stories[s].versions[k].version}}
  IN IF F.stories.ok /\ p.required /\ S # {} /\ K # {}
     THEN <<s, CHOOSE k \in K : TRUE>> ELSE <<0, 0>>

Complete(version) ==
  /\ version.acceptance_criteria # <<>>
  /\ version.test_intent.failure_modes # <<>> \/ version.test_intent.guarantees # <<>>

C8_ApprovalGate ==
  \A p \in SetStoryApprovedPayloads(files, ProbingVersions) :
    LET at == AimedBacklog(files, p)
        version == files.stories.recs[at[1]].versions[at[2]]
        out == set_story_approved(files, p, clock)
    IN (at # <<0, 0>> /\ p.approved = JBool(TRUE)) =>
         IF Complete(version)
         THEN /\ out.res.status = "success"
              /\ out.files.stories.recs[at[1]].versions[at[2]].approved
         ELSE /\ out.res.status = "error"
              /\ out.files.stories.ok
              /\ out.files.stories.recs[at[1]].versions[at[2]].approved = version.approved

C8_Witness ==
  /\ last.op = "set_story_approved"
  /\ last.message = "Cannot approve: test_intent must have at least one failure_mode or guarantee"
  /\ \E i \in 1..Len(files.stories.recs) :
       \E k \in 1..Len(files.stories.recs[i].versions) :
         LET version == files.stories.recs[i].versions[k]
         IN /\ version.status = "backlog"
            /\ version.acceptance_criteria # <<>>
            /\ version.test_intent = TestIntent(<<>>, <<>>)
            /\ ~version.approved

(* C9: create_epic_version / create_story_version: on success the single *)
(* backlog version becomes released if it was approved and discarded     *)
(* otherwise, and one version is appended, numbered max+1, in backlog,   *)
(* not approved, superseding the outgoing one; with no backlog version   *)
(* the operation fails and changes nothing.                              *)
VersionAppended(old, new) ==
  LET B == backlog_versions(old)
      cur == CHOOSE k \in B : TRUE
      added == new[Len(new)]
  IN /\ Cardinality(B) = 1
     /\ Len(new) = Len(old) + 1
     /\ \A k \in 1..Len(old) :
          IF k = cur
          THEN /\ new[k].status = IF old[k].approved THEN "released" ELSE "discarded"
               /\ new[k].version = old[k].version
               /\ new[k].approved = old[k].approved
          ELSE new[k] = old[k]
     /\ \A k \in 1..Len(old) : old[k].version < added.version
     /\ \E k \in 1..Len(old) : old[k].version + 1 = added.version
     /\ added.status = "backlog"
     /\ added.approved = FALSE
     /\ added.supersedes = old[cur].version

(* the outcome of a version-creating call on record id of family fam *)
VersionCreated(F, fam, id, out) ==
  LET recs == F[fam].recs
      e == find_record_by_id(id, recs)
  IN /\ out.res.status = "success" =>
          /\ e # 0
          /\ \A g \in DATA_FILES \ {fam} : out.files[g] = F[g]
          /\ out.files[fam].ok
          /\ Len(out.files[fam].recs) = Len(recs)
          /\ \A i \in 1..Len(recs) :
               IF i = e
               THEN /\ out.files[fam].recs[i].id = recs[i].id
                    /\ out.files[fam].recs[i].status = recs[i].status
                    /\ VersionAppended(recs[i].versions, out.files[fam].recs[i].versions)
               ELSE out.files[fam].recs[i] = recs[i]
     /\ (e = 0 \/ backlog_versions(recs[e].versions) = {}) => Refused(F, out)

C9_VersionTransition ==
  /\ \A p \in CreateEpicVersionPayloads(files, Probing) :
       VersionCreated(files, "epics", p.epic_id, create_epic_version(files, p, clock))
  /\ \A p \in CreateStoryVersionPayloads(files, Probing) :
       VersionCreated(files, "stories", p.story_id, create_story_version(files, p, clock))

C9_Witness ==
  /\ last.op = "create_story_version"
  /\ last.status = "success"
  /\ \E i \in 1..Len(files.stories.recs) :
       LET versions == files.stories.recs[i].versions
       IN /\ Len(versions) = 2
          /\ versions[1].status = "released"
          /\ versions[1].approved
          /\ versions[2].status = "backlog"
          /\ versions[2].supersedes = 1

(* C10: supersede_requirement is all or nothing, as claimed: on success  *)
(* one record is added, active and not superseded, and the old record is *)
(* deprecated and superseded by it, nothing else changing; on any        *)
(* failure no record is added and the old record is as it was.           *)
ProbingRefs == Profile(TRUE, TRUE, TRUE, TRUE, TRUE, FALSE, FALSE)

Superseded(F, p, out) ==
  LET requirements == F.requirements.recs
      new == out.files.requirements.recs
      S == {i \in 1..Len(requirements) : requirements[i].id = p.old_id}
      old == CHOOSE i \in S : TRUE
  IN IF out.res.status = "success"
     THEN /\ S # {}
          /\ \A g \in DATA_FILES \ {"requirements"} : out.files[g] = F[g]
          /\ out.files.requirements.ok
          /\ Len(new) = Len(requirements) + 1
          /\ new[Len(new)].status = "active"
          /\ new[Len(new)].superseded_by = NoId
          /\ new[old].id = p.old_id
          /\ new[old].status = "deprecated"
          /\ new[old].superseded_by = new[Len(new)].id
          /\ \A i \in 1..Len(requirements) : i # old => new[i] = requirements[i]
     ELSE out.files = F

C10_SupersedeAllOrNothing ==
  \A p \in SupersedeRequirementPayloads(files, ProbingRefs) :
    Superseded(files, p, supersede_requirement(files, p, clock))

(* C11: release status is one-way, as claimed: set_release_status        *)
(* succeeds only by taking a planned release to released and otherwise   *)
(* fails without change; a released release is released ever after.     *)
Shipped(old, new) ==
  /\ new.ok
  /\ Len(new.recs) = Len(old.recs)
  /\ \E i \in 1..Len(old.recs) :
       /\ old.recs[i].status = "planned"
       /\ new.recs[i].status = "released"
       /\ new.recs[i].id = old.recs[i].id
       /\ \A j \in 1..Len(old.recs) : j # i => new.recs[j] = old.recs[j]

C11_ReleaseOneWay ==
  [][/\ (last'.op = "set_release_status" /\ clock' = clock) =>
          IF last'.status = "success"
          THEN /\ Shipped(files.releases, files'.releases)
               /\ \A g \in DATA_FILES \ {"releases"} : files'[g] = files[g]
          ELSE files' = files
     /\ \A i \in 1..Len(files.releases.recs) :
          files.releases.recs[i].status = "released" =>
            /\ i <= Len(files'.releases.recs)
            /\ files'.releases.recs[i].id = files.releases.recs[i].id
            /\ files'.releases.recs[i].status = "released"]_vars

(* C12: deprecated records are immutable, as claimed: an artifact, a     *)
(* requirement or a feature whose status is deprecated has every field   *)
(* as it was after any later operation.                                  *)
Retirable == {"artifacts", "requirements", "features"}

C12_DeprecatedImmutable ==
  [][\A fam \in Retirable : \A i \in 1..Len(files[fam].recs) :
       files[fam].recs[i].status = "deprecated" =>
         /\ i <= Len(files'[fam].recs)
         /\ files'[fam].recs[i] = files[fam].recs[i]]_vars

(* C13: initial status on creation, as claimed: whatever the payload     *)
(* holds, a successful create stores a planned release, a draft          *)
(* artifact, an active requirement or feature, an active epic or story   *)
(* with one version, numbered 1, in backlog, not approved, superseding   *)
(* none.                                                                 *)
ProbingContent == Profile(TRUE, FALSE, FALSE, TRUE, TRUE, TRUE, FALSE)

(* the record a successful create appended to family fam has this status *)
CreatedIn(out, fam, status) ==
  out.res.status = "success" =>
    /\ out.files[fam].ok
    /\ out.files[fam].recs # <<>>
    /\ out.files[fam].recs[Len(out.files[fam].recs)].status = status

FirstVersionOnly(out, fam) ==
  out.res.status = "success" =>
    LET versions == out.files[fam].recs[Len(out.files[fam].recs)].versions
    IN /\ Len(versions) = 1
       /\ versions[1].version = 1
       /\ versions[1].status = "backlog"
       /\ versions[1].approved = FALSE
       /\ versions[1].supersedes = 0

C13_InitialStatus ==
  /\ \A p \in CreateReleasePayloads(files, ProbingContent) :
       CreatedIn(create_release(files, p, clock), "releases", "planned")
  /\ \A p \in AddDomainEntryPayloads(files, ProbingContent) :
       CreatedIn(add_domain_entry(files, p, clock), "artifacts", "draft")
  /\ \A p \in AddRequirementPayloads(files, ProbingContent) :
       CreatedIn(add_requirement(files, p, clock), "requirements", "active")
  /\ \A p \in AddFeaturePayloads(files, ProbingContent) :
       CreatedIn(add_feature(files, p, clock), "features", "active")
  /\ \A p \in AddEpicPayloads(files, ProbingContent) :
       LET out == add_epic(files, p, clock)
       IN CreatedIn(out, "epics", "active") /\ FirstVersionOnly(out, "epics")
  /\ \A p \in AddStoryPayloads(files, ProbingContent) :
       LET out == add_story(files, p, clock)
       IN CreatedIn(out, "stories", "active") /\ FirstVersionOnly(out, "stories")

(* C14: deprecate_epic / deprecate_story: on an active epic or story the *)
(* outer status becomes deprecated and every backlog version becomes     *)
(* discarded, released and discarded versions staying as they were, so   *)
(* that no backlog version is left; on a deprecated one the call fails   *)
(* and changes nothing.                                                  *)
Retired(F, fam, id, out) ==
  LET recs == F[fam].recs
      new == out.files[fam].recs
      S == {i \in 1..Len(recs) : recs[i].id = id}
      e == CHOOSE i \in S : TRUE
  IN S # {} =>
       IF recs[e].status = "active"
       THEN /\ out.res.status = "success"
            /\ \A g \in DATA_FILES \ {fam} : out.files[g] = F[g]
            /\ out.files[fam].ok
            /\ Len(new) = Len(recs)
            /\ \A i \in 1..Len(recs) : i # e => new[i] = recs[i]
            /\ new[e].id = id
            /\ new[e].status = "deprecated"
            /\ Len(new[e].versions) = Len(recs[e].versions)
            /\ \A k \in 1..Len(recs[e].versions) :
                 IF recs[e].versions[k].status = "backlog"
                 THEN /\ new[e].versions[k].status = "discarded"
                      /\ new[e].versions[k].version = recs[e].versions[k].version
                      /\ new[e].versions[k].approved = recs[e].versions[k].approved
                 ELSE new[e].versions[k] = recs[e].versions[k]
            /\ backlog_versions(new[e].versions) = {}
       ELSE Refused(F, out)

C14_Deprecation ==
  /\ \A p \in EpicIdPayloads(files, Plain) :
       Retired(files, "epics", p.epic_id, deprecate_epic(files, p, clock))
  /\ \A p \in StoryIdPayloads(files, Plain) :
       Retired(files, "stories", p.story_id, deprecate_story(files, p, clock))

C14_Witness ==
  /\ last.op = "deprecate_story"
  /\ last.status = "success"
  /\ \E i \in 1..Len(files.stories.recs) :
       LET versions == files.stories.recs[i].versions
       IN /\ files.stories.recs[i].status = "deprecated"
          /\ Len(versions) = 2
          /\ versions[1].status = "released"
          /\ versions[2].status = "discarded"
          /\ versions[2].approved

(* C15: mutation and validator agree.  Every store that the operations   *)
(* have left (none of them failed while writing: the text of every        *)
(* payload encodes) passes the validator with no error.                   *)
C15_MutationValidatorAgree == run_validation(files, FALSE).errors = {}

(* C16: the mutation CLI never exits without a well-formed result.  After *)
(* every invocation of main with a valid operation name, whatever the     *)
(* source and the content of the payload, exactly one result has been     *)
(* printed, and the exit code is 0 when its status is success and 1 when  *)
(* its status is error.                                                   *)
C16_AlwaysOneResult ==
  proc.tool = "mutate" =>
    /\ proc.printed = 1
    /\ last.status \in {"success", "error"}
    /\ proc.exit = (IF last.status = "success" THEN 0 ELSE 1)

(* a store that is valid except that element k of the requirement_refs   *)
(* of feature i names no requirement: the validator has nothing to report *)
(* once that element is taken out                                         *)
RemoveAt(seq, k) == SubSeq(seq, 1, k - 1) \o SubSeq(seq, k + 1, Len(seq))

OneDanglingRef(F, i, k) ==
  /\ Loads(F, DATA_FILES)
  /\ i \in 1..Len(F.features.recs)
  /\ k \in 1..Len(F.features.recs[i].requirement_refs)
  /\ F.features.recs[i].requirement_refs[k] \notin StoredIds(F, "requirements")
  /\ run_validation(
        [F EXCEPT !.features.recs[i].requirement_refs = RemoveAt(@, k)],
        FALSE).errors = {}

(* the errors of a result that are about the requirement_refs of feature i *)
RefErrors(errors, i) ==
  {e \in errors : e.family = "features" /\ e.i = i /\ e.kind = "requirement_refs"}

(* C17: validator accumulation.  The validator reports one error per      *)
(* violation and stops at none: a feature gets as many errors as its      *)
(* requirement_refs has elements that name no requirement; over a store   *)
(* that is valid but for one such element, the errors are exactly one     *)
(* entry naming that feature and that id, and the run exits 1; and a run, *)
(* with or without warnings, exits 0 exactly when its errors are empty.   *)
C17_Accumulation ==
  /\ \A i \in 1..Len(files.features.recs) :
       LET refs == files.features.recs[i].requirement_refs
       IN /\ Cardinality(RefErrors(run_validation(files, FALSE).errors, i))
               = Cardinality({k \in 1..Len(refs) :
                                refs[k] \notin StoredIds(files, "requirements")})
          /\ \A k \in 1..Len(refs) :
               OneDanglingRef(files, i, k) =>
                 /\ run_validation(files, FALSE).errors
                      = {Entry("requirement_refs", "features", i, 0, k,
                               files.features.recs[i].id, refs[k])}
                 /\ validate_main(files, FALSE).exit = 1
  /\ \A include_warnings \in BOOLEAN :
       validate_main(files, include_warnings).exit = 0
         <=> run_validation(files, include_warnings).errors = {}

(* the artifacts a run with warnings owes a doc_path warning: those that  *)
(* are not deprecated and have a doc_path (no file stands at docs/a.md,   *)
(* the one path the payloads give)                                        *)
MissingDocs(F) ==
  {i \in 1..Len(F.artifacts.recs) :
     F.artifacts.recs[i].status # "deprecated" /\ F.artifacts.recs[i].doc_path # ""}

(* C18: validator warnings run to completion.  On every store, a run with *)
(* warnings enabled ends with a printed result; the result has a warning  *)
(* for every non-deprecated artifact whose doc_path names no file; and    *)
(* its errors and its exit code are those of a run without warnings.      *)
C18_WarningsComplete ==
  LET with == validate_main(files, TRUE)
      without == validate_main(files, FALSE)
  IN /\ with.printed = 1
     /\ \A i \in MissingDocs(files) :
          \E w \in with.warnings : w.family = "artifacts" /\ w.i = i
     /\ with.errors = without.errors
     /\ with.exit = without.exit

(* C19: approved implies complete.  In every store the operations have    *)
(* left, every story version with approved = true has acceptance criteria *)
(* and a test intent with a failure mode or a guarantee, whatever its     *)
(* status has become since.                                               *)
C19_ApprovedImpliesComplete ==
  \A i \in 1..Len(files.stories.recs) :
    \A k \in 1..Len(files.stories.recs[i].versions) :
      files.stories.recs[i].versions[k].approved =>
        Complete(files.stories.recs[i].versions[k])

(* an approved, complete version has been discarded by set_story_status  *)
C19_Witness ==
  /\ last.op = "set_story_status"
  /\ last.status = "success"
  /\ \E i \in 1..Len(files.stories.recs) :
       \E k \in 1..Len(files.stories.recs[i].versions) :
         LET version == files.stories.recs[i].versions[k]
         IN /\ version.approved
            /\ version.status = "discarded"
            /\ Complete(version)

(* C20: artifact type is always a list.  After any successful             *)
(* add_domain_entry and update_domain_entry calls whose payloads give     *)
(* type as one string or as a list of strings, the type of every stored   *)
(* artifact is a list whose elements are all valid types.                 *)
C20_TypeIsList ==
  \A i \in 1..Len(files.artifacts.recs) :
    LET entry_type == files.artifacts.recs[i].type
    IN /\ entry_type.kind = "list"
       /\ \A k \in 1..Len(entry_type.v) : entry_type.v[k] \in valid_types

(* the payloads of a new version that C21 is tried on: each reference     *)
(* list and each content field is left out, given empty or given filled   *)
ProbingCarry == Profile(FALSE, FALSE, TRUE, FALSE, FALSE, TRUE, FALSE)

(* the value a field of the new version is to carry *)
Carried(given, outgoing) == IF given = Absent THEN outgoing ELSE given.v

(* C21: copy-forward on a new version.  The version that                 *)
(* create_epic_version / create_story_version appends carries, for each   *)
(* inheritable field, the outgoing version's value when the payload does  *)
(* not contain the field and the payload's value when it does, an         *)
(* explicit empty list included.                                          *)
C21_CopyForward ==
  /\ \A p \in CreateEpicVersionPayloads(files, ProbingCarry) :
       LET out == create_epic_version(files, p, clock)
           e == find_record_by_id(p.epic_id, files.epics.recs)
           old == files.epics.recs[e].versions
           new == out.files.epics.recs[e].versions
       IN out.res.status = "success" =>
            /\ new[Len(new)].requirement_refs
                 = Carried(p.requirement_refs, old[FirstBacklog(old)].requirement_refs)
            /\ new[Len(new)].artifact_refs
                 = Carried(p.artifact_refs, old[FirstBacklog(old)].artifact_refs)
  /\ \A p \in CreateStoryVersionPayloads(files, ProbingCarry) :
       LET out == create_story_version(files, p, clock)
           s == find_record_by_id(p.story_id, files.stories.recs)
           old == files.stories.recs[s].versions
           new == out.files.stories.recs[s].versions
           outgoing == old[FirstBacklog(old)]
       IN out.res.status = "success" =>
            /\ new[Len(new)].requirement_refs
                 = Carried(p.requirement_refs, outgoing.requirement_refs)
            /\ new[Len(new)].artifact_refs
                 = Carried(p.artifact_refs, outgoing.artifact_refs)
            /\ new[Len(new)].acceptance_criteria
                 = Carried(p.acceptance_criteria, outgoing.acceptance_criteria)
            /\ new[Len(new)].test_intent
                 = (IF p.test_intent = Absent THEN outgoing.test_intent
                    ELSE p.test_intent.v[1])

(* the versions of epics and stories that name a version they supersede,  *)
(* as <<family, record index, version index>>                             *)
Superseding(F) ==
  {<<fam, i, v>> \in UNION {UNION {{<<f, j, h>> : h \in 1..Len(F[f].recs[j].versions)} :
                                    j \in 1..Len(F[f].recs)} : f \in Versioned} :
     F[fam].recs[i].versions[v].supersedes # 0}

(* C22: validator supersedes check.  For every epic and story version     *)
(* whose supersedes is not null, the validator reports an invalid         *)
(* supersedes error unless supersedes is strictly lower than the          *)
(* version's own number and is the number of a version of the same        *)
(* versions[] array, wherever in the array that version stands.           *)
C22_SupersedesCheck ==
  \A at \in Superseding(files) :
    LET versions == files[at[1]].recs[at[2]].versions
        version == versions[at[3]]
        reported == \E e \in run_validation(files, FALSE).errors :
                      /\ e.kind = "supersedes" /\ e.family = at[1]
                      /\ e.i = at[2] /\ e.v = at[3]
    IN reported <=>
         ~( /\ version.supersedes < version.version
            /\ \E k \in 1..Len(versions) : versions[k].version = version.supersedes )

(* the id a payload gives for the new record is malformed or taken *)
BadId(F, fam, id) ==
  id # NoId /\ (~validate_id_format(id, fam) \/ id_exists(id, F[fam].recs))

(* a reference list of the payload names a record that does not exist *)
Unresolved(F, refs, fam) ==
  \E k \in 1..Len(GetList(refs)) : GetList(refs)[k] \notin StoredIds(F, fam)

IdErrors ==
  {"Invalid requirement ID format", "Requirement already exists",
   "Invalid feature ID format", "Feature already exists",
   "Invalid epic ID format", "Epic already exists",
   "Invalid story ID format", "Story already exists"}

(* C23: order of checks in create operations.  When the payload of        *)
(* add_requirement, add_feature, add_epic or add_story has its required   *)
(* fields and gives both a malformed or taken id and an unresolved        *)
(* reference or a release that is not open, the error returned is the     *)
(* error about the id.                                                    *)
C23_IdCheckedFirst ==
  /\ \A p \in AddRequirementPayloads(files, ProbingRefs) :
       ( /\ Loads(files, DATA_FILES) /\ p.required /\ p.type = "functional"
         /\ BadId(files, "requirements", p.id)
         /\ Unresolved(files, p.artifact_refs, "artifacts") )
       => add_requirement(files, p, clock).res.message \in IdErrors
  /\ \A p \in AddFeaturePayloads(files, ProbingRefs) :
       ( /\ Loads(files, DATA_FILES) /\ p.required
         /\ BadId(files, "features", p.id)
         /\ \/ Unresolved(files, p.requirement_refs, "requirements")
            \/ Unresolved(files, p.artifact_refs, "artifacts") )
       => add_feature(files, p, clock).res.message \in IdErrors
  /\ \A p \in AddEpicPayloads(files, ProbingRefs) :
       ( /\ Loads(files, DATA_FILES) /\ p.required
         /\ BadId(files, "epics", p.id)
         /\ \/ p.feature_ref \notin StoredIds(files, "features")
            \/ ~ReleaseOpen(files, p.release_ref)
            \/ Unresolved(files, p.requirement_refs, "requirements")
            \/ Unresolved(files, p.artifact_refs, "artifacts") )
       => add_epic(files, p, clock).res.message \in IdErrors
  /\ \A p \in AddStoryPayloads(files, ProbingRefs) :
       ( /\ Loads(files, DATA_FILES) /\ p.required
         /\ BadId(files, "stories", p.id)
         /\ \/ p.epic_ref \notin StoredIds(files, "epics")
            \/ ~ReleaseOpen(files, p.release_ref)
            \/ Unresolved(files, p.requirement_refs, "requirements")
            \/ Unresolved(files, p.artifact_refs, "artifacts") )
       => add_story(files, p, clock).res.message \in IdErrors

(* the place of a status in the order draft < active < deprecated *)
Rank(status) == CASE status = "draft" -> 0 [] status = "active" -> 1 [] OTHER -> 2

(* C24: the status of an artifact, a requirement and a feature only moves *)
(* forward.  In every step each stored record is still stored, with a     *)
(* status that is not earlier in the order draft < active < deprecated    *)
(* (so deprecated stays deprecated), and activate_domain_entry succeeds   *)
(* only on an artifact that was in draft.                                 *)
C24_StatusForward ==
  [][ /\ \A fam \in Retirable :
          \A i \in 1..Len(files[fam].recs) :
            /\ i <= Len(files'[fam].recs)
            /\ files'[fam].recs[i].id = files[fam].recs[i].id
            /\ Rank(files'[fam].recs[i].status) >= Rank(files[fam].recs[i].status)
      /\ (last'.op = "activate_domain_entry" /\ last'.status = "success"
            /\ clock' = clock) =>
           \E i \in 1..Len(files.artifacts.recs) :
             /\ files.artifacts.recs[i].status = "draft"
             /\ files'.artifacts.recs[i].status = "active" ]_vars

(* both processes are done with success, a saved before b, and the two    *)
(* wrote records with different ids                                       *)
BothSaved(a, b) ==
  /\ inflight[a].pc = "done" /\ inflight[b].pc = "done"
  /\ inflight[a].res.status = "success" /\ inflight[b].res.status = "success"
  /\ inflight[a].order < inflight[b].order
  /\ inflight[a].wrote[1].id # inflight[b].wrote[1].id

Stored(w) ==
  \E i \in 1..Len(files.requirements.recs) :
    files.requirements.recs[i] = inflight[w].wrote[1]

(* C25: lost update under concurrent writers.  When two operations on one *)
(* family have both loaded before either saved, both return success and   *)
(* the file holds only the record of the one that saved last; when the    *)
(* second loaded after the first had saved, the file holds both records.  *)
C25_LostUpdate ==
  \A a, b \in Writers :
    BothSaved(a, b) =>
      /\ Stored(b)
      /\ Stored(a) <=> ~(inflight[a].raced \/ inflight[b].raced)

C25_Witness ==
  \E a, b \in Writers :
    /\ BothSaved(a, b)
    /\ inflight[a].raced \/ inflight[b].raced
    /\ ~Stored(a)
    /\ Len(files.requirements.recs) = 1

(* C26: the backlog version is always the newest.  In every state, for    *)
(* every epic and story: a backlog version has the highest version        *)
(* number, version 1 supersedes none and every later version v supersedes *)
(* v - 1, and get_current_version gives the highest-numbered version.     *)
C26_BacklogIsNewest ==
  \A fam \in Versioned :
    \A i \in 1..Len(files[fam].recs) :
      LET versions == files[fam].recs[i].versions
      IN versions # <<>> =>
           /\ \A k \in backlog_versions(versions) :
                versions[k].version = MaxVersionNum(versions)
           /\ \A k \in 1..Len(versions) :
                versions[k].supersedes = versions[k].version - 1
           /\ versions[get_current_version(versions)].version = MaxVersionNum(versions)

(* an epic has two versions, the second one in backlog and current *)
C26_Witness ==
  /\ last.op = "create_epic_version"
  /\ \E i \in 1..Len(files.epics.recs) :
       LET versions == files.epics.recs[i].versions
       IN /\ Len(versions) = 2
          /\ versions[1].status \in Terminal
          /\ versions[2].status = "backlog"
          /\ versions[2].supersedes = 1
          /\ get_current_version(versions) = 2

(* a stored epic or story that has versions, none of them in backlog *)
NoBacklog(F, fam, id) ==
  LET i == find_record_by_id(id, F[fam].recs)
  IN i # 0 /\ F[fam].recs[i].versions # <<>>
           /\ backlog_versions(F[fam].recs[i].versions) = {}

(* every call that would append a version to a record without a backlog  *)
(* version, or change the status or the approved flag of one of its      *)
(* versions, fails and writes nothing                                    *)
Closed ==
  /\ \A p \in CreateEpicVersionPayloads(files, Plain) :
       NoBacklog(files, "epics", p.epic_id) =>
         Refused(files, create_epic_version(files, p, clock))
  /\ \A p \in CreateStoryVersionPayloads(files, Plain) :
       NoBacklog(files, "stories", p.story_id) =>
         Refused(files, create_story_version(files, p, clock))
  /\ \A p \in SetEpicVersionStatusPayloads(files, Versioning) :
       NoBacklog(files, "epics", p.epic_id) =>
         Refused(files, set_epic_version_status(files, p, clock))
  /\ \A p \in SetStoryStatusPayloads(files, Versioning) :
       NoBacklog(files, "stories", p.story_id) =>
         Refused(files, set_story_status(files, p, clock))
  /\ \A p \in SetEpicApprovedPayloads(files, Versioning) :
       NoBacklog(files, "epics", p.epic_id) =>
         Refused(files, set_epic_approved(files, p, clock))
  /\ \A p \in SetStoryApprovedPayloads(files, Versioning) :
       NoBacklog(files, "stories", p.story_id) =>
         Refused(files, set_story_approved(files, p, clock))

(* a step leaves a record without a backlog version with the versions it *)
(* has, and a deprecated record deprecated                               *)
StaysClosed ==
  \A fam \in Versioned : \A i \in 1..Len(files[fam].recs) :
    i <= Len(files'[fam].recs) =>
      /\ NoBacklog(files, fam, files[fam].recs[i].id) =>
           files'[fam].recs[i].versions = files[fam].recs[i].versions
      /\ files[fam].recs[i].status = "deprecated" =>
           files'[fam].recs[i].status = "deprecated"

(* C27: no way back to backlog.  Once an epic or story has no backlog     *)
(* version, create_*_version, set_*_approved and every change of a        *)
(* version status on it fail; no operation gives it a backlog version or  *)
(* appends a version, and a deprecated record never becomes active again. *)
C27_NoWayBack == []Closed /\ [][StaysClosed]_vars

(* set_epic_version_status has just been refused on an epic whose only    *)
(* version was released by hand                                           *)
C27_Witness ==
  /\ last.op = "set_epic_version_status"
  /\ last.status = "error"
  /\ \E i \in 1..Len(files.epics.recs) :
       /\ NoBacklog(files, "epics", files.epics.recs[i].id)
       /\ files.epics.recs[i].status = "active"
       /\ files.epics.recs[i].versions[1].status = "released"

(* The supersession of requirements: requirements are created, with an   *)
(* id of the caller or a generated one, updated, deprecated and          *)
(* superseded, up to MaxChain of them, while the clock advances.         *)
MaxChain == 3

ChainStep(op, out) ==
  \E o \in {mutate_main("inline", files, out)} :
    /\ Len(o.files.requirements.recs) <= MaxChain
    /\ files' = o.files
    /\ last' = [op |-> op, status |-> o.res.status, message |-> o.res.message]
    /\ proc' = o.proc
    /\ UNCHANGED <<clock, inflight>>

AddToChain ==
  \E p \in AddRequirementPayloads(files, Naming) :
    ChainStep("add_requirement", add_requirement(files, p, now_iso))

UpdateInChain ==
  \E p \in UpdateRequirementPayloads(files, Plain) :
    ChainStep("update_requirement", update_requirement(files, p, now_iso))

DeprecateInChain ==
  \E p \in IdPayloads(files, "requirements", Plain) :
    ChainStep("deprecate_requirement", deprecate_requirement(files, p, now_iso))

SupersedeInChain ==
  \E p \in SupersedeRequirementPayloads(files, Naming) :
    ChainStep("supersede_requirement", supersede_requirement(files, p, now_iso))

NextChain == AddToChain \/ UpdateInChain \/ DeprecateInChain \/ SupersedeInChain \/ Tick

SpecChain == Init /\ [][NextChain]_vars

(* the records met by following superseded_by from record i, n links far *)
RECURSIVE Successors(_, _, _)
Successors(recs, i, n) ==
  LET j == find_record_by_id(recs[i].superseded_by, recs)
  IN IF n = 0 \/ recs[i].superseded_by = NoId \/ j = 0 THEN {}
     ELSE {j} \cup Successors(recs, j, n - 1)

WellFormedChain ==
  LET recs == files.requirements.recs
  IN \A i \in 1..Len(recs) :
       /\ recs[i].superseded_by # NoId =>
            /\ recs[i].status = "deprecated"
            /\ recs[i].superseded_by # recs[i].id
            /\ \E j \in (i + 1)..Len(recs) : recs[j].id = recs[i].superseded_by
       /\ i \notin Successors(recs, i, Len(recs))

(* a step leaves a superseded_by that is set as it is *)
SupersededOnce ==
  \A i \in 1..Len(files.requirements.recs) :
    (files.requirements.recs[i].superseded_by # NoId
       /\ i <= Len(files'.requirements.recs)) =>
      files'.requirements.recs[i].superseded_by = files.requirements.recs[i].superseded_by

(* C28: the supersession chain of requirements is well formed.  In every *)
(* reachable store a requirement with a superseded_by is deprecated, its *)
(* superseded_by names another requirement, created later; following the *)
(* links never comes back to a requirement; and a superseded_by that is  *)
(* set is never changed.                                                 *)
C28_ChainWellFormed == []WellFormedChain /\ [][SupersededOnce]_vars

(* a chain of two links: the first requirement was superseded by the     *)
(* second, and the second has just been superseded by the third          *)
C28_Witness ==
  /\ last.op = "supersede_requirement"
  /\ last.status = "success"
  /\ Len(files.requirements.recs) = MaxChain
  /\ files.requirements.recs[1].superseded_by = files.requirements.recs[2].id
  /\ files.requirements.recs[2].superseded_by = files.requirements.recs[3].id
  /\ Successors(files.requirements.recs, 1, MaxChain) = {2, 3}

(* The release of versions by hand: epics and stories are created, with  *)
(* and without the content approval asks for, their backlog versions are *)
(* approved or not, superseded by new versions, and given a status.      *)
NextManual ==
  \/ CreateRelease(Plain) \/ AddFeature(Plain)
  \/ AddEpic(Plain) \/ AddStory(Writing)
  \/ CreateEpicVersion(Plain) \/ CreateStoryVersion(Writing)
  \/ SetEpicApproved(Plain) \/ SetStoryApproved(Plain)
  \/ SetEpicVersionStatus(Plain) \/ SetStoryStatus(Plain)

SpecManual == Init /\ [][NextManual]_vars

(* the call succeeded and wrote the status and updated_at of version k   *)
(* of record i, and nothing else                                         *)
ReleasedByHand(F, fam, i, k, out) ==
  /\ out.res.status = "success"
  /\ out.files = [F EXCEPT ![fam].recs[i].versions[k].status = "released",
                           ![fam].recs[i].versions[k].updated_at = clock]

(* set_epic_version_status and set_story_status with status released on  *)
(* the backlog version, named by its number or not named                 *)
ManualRelease ==
  /\ \A p \in SetEpicVersionStatusPayloads(files, Versioning) :
       LET i == find_record_by_id(p.epic_id, files.epics.recs)
           versions == files.epics.recs[i].versions
           k == FirstBacklog(versions)
       IN (i # 0 /\ p.status = "released" /\ backlog_versions(versions) # {}
             /\ p.version \in {0, versions[k].version}) =>
            ReleasedByHand(files, "epics", i, k, set_epic_version_status(files, p, clock))
  /\ \A p \in SetStoryStatusPayloads(files, Versioning) :
       LET i == find_record_by_id(p.story_id, files.stories.recs)
           versions == files.stories.recs[i].versions
           k == FirstBacklog(versions)
       IN (i # 0 /\ p.status = "released" /\ backlog_versions(versions) # {}
             /\ p.version \in {0, versions[k].version}) =>
            ReleasedByHand(files, "stories", i, k, set_story_status(files, p, clock))

(* a released version that is not approved *)
Unapproved(version) == version.status = "released" /\ ~version.approved

(* after a create_*_version step, every released version that is not     *)
(* approved was one before the step                                      *)
CreateReleasesApproved ==
  last'.op \in {"create_epic_version", "create_story_version"} =>
    \A fam \in Versioned : \A i \in 1..Len(files'[fam].recs) :
      \A k \in 1..Len(files'[fam].recs[i].versions) :
        Unapproved(files'[fam].recs[i].versions[k]) =>
          /\ i <= Len(files[fam].recs)
          /\ k <= Len(files[fam].recs[i].versions)
          /\ Unapproved(files[fam].recs[i].versions[k])

(* C29: manual release needs no approval.  set_epic_version_status and   *)
(* set_story_status with status released succeed on a backlog version    *)
(* whether approved is true or false and change only its status and      *)
(* updated_at, while create_*_version never leaves a version that is      *)
(* released and not approved.                                            *)
C29_ManualRelease == []ManualRelease /\ [][CreateReleasesApproved]_vars

(* set_story_status has just released a backlog version that was never   *)
(* approved, and an approved epic version has been released by hand too  *)
C29_Witness ==
  /\ last.op = "set_story_status"
  /\ last.status = "success"
  /\ \E i \in 1..Len(files.stories.recs) :
       \E k \in 1..Len(files.stories.recs[i].versions) :
         Unapproved(files.stories.recs[i].versions[k])
  /\ \E i \in 1..Len(files.epics.recs) :
       /\ Len(files.epics.recs[i].versions) = 1
       /\ files.epics.recs[i].versions[1].status = "released"
       /\ files.epics.recs[i].versions[1].approved

(* The six families together: records of every family are created, the  *)
(* requirements and features with references to what they rest on, the  *)
(* release is shipped, and artifacts, requirements, features and epics   *)
(* are deprecated under the records that reference them.                *)
Referring == Profile(FALSE, FALSE, TRUE, FALSE, FALSE, FALSE, FALSE)

NextFamilies ==
  \/ CreateRelease(Plain) \/ SetReleaseStatus(Plain)
  \/ AddDomainEntry(Plain) \/ DeprecateDomainEntry(Plain)
  \/ AddRequirement(Referring) \/ DeprecateRequirement(Plain)
  \/ AddFeature(Referring) \/ DeprecateFeature(Plain)
  \/ AddEpic(Plain) \/ DeprecateEpic(Plain)
  \/ AddStory(Plain)

SpecFamilies == Init /\ [][NextFamilies]_vars

(* a call that succeeded changed the collection of its own family and of *)
(* no other                                                              *)
Framed(F, own, out) ==
  out.res.status = "success" =>
    /\ out.files[own] # F[own]
    /\ \A fam \in DATA_FILES \ {own} : out.files[fam] = F[fam]

(* the time of a call made after every call so far *)
later == clock + 1

============================================================================
